---- MODULE Spec2Model ----
(***************************************************************************)
(* Model of the passport MRZ pipeline of passport_ocr.py (MRZDetector,     *)
(* MRZParser, PassportValidator, PassportOCR) and of the web service of    *)
(* app_fastapi.py that runs it in background jobs.                         *)
(*                                                                         *)
(* A Python str is a sequence of one-character strings; Optional[T] is a   *)
(* sequence of length at most one (None is <<>>, a value v is <<v>>).      *)
(***************************************************************************)
EXTENDS Integers, Sequences, FiniteSets, TLC

VARIABLES pc, input, ret, now, image_files, calls, jobs, tmp_files, published

vars == <<pc, input, ret, now, image_files, calls, jobs, tmp_files, published>>

None == <<>>
Some(v) == <<v>>

(***************************************************************************)
(* Characters: str.isdigit, str.isalpha, str.isalnum, ord, str.upper       *)
(***************************************************************************)
DigitChars == <<"0","1","2","3","4","5","6","7","8","9">>
UpperChars == <<"A","B","C","D","E","F","G","H","I","J","K","L","M",
                "N","O","P","Q","R","S","T","U","V","W","X","Y","Z">>
LowerChars == <<"a","b","c","d","e","f","g","h","i","j","k","l","m",
                "n","o","p","q","r","s","t","u","v","w","x","y","z">>

IndexOf(c, table) == CHOOSE i \in 1..Len(table) : table[i] = c
InTable(c, table) == \E i \in 1..Len(table) : table[i] = c

isdigit(c) == InTable(c, DigitChars)
isupper(c) == InTable(c, UpperChars)
islower(c) == InTable(c, LowerChars)
isalpha(c) == isupper(c) \/ islower(c)
isalnum(c) == isalpha(c) \/ isdigit(c)

int(c) == IndexOf(c, DigitChars) - 1

ord(c) ==
    IF isdigit(c) THEN 48 + int(c)
    ELSE IF isupper(c) THEN 64 + IndexOf(c, UpperChars)
    ELSE IF islower(c) THEN 96 + IndexOf(c, LowerChars)
    ELSE IF c = "<" THEN 60
    ELSE IF c = " " THEN 32
    ELSE IF c = "-" THEN 45
    ELSE IF c = "\n" THEN 10
    ELSE IF c = "\t" THEN 9
    ELSE IF c = "." THEN 46
    ELSE IF c = "(" THEN 40
    ELSE IF c = ")" THEN 41
    ELSE IF c = ">" THEN 62
    ELSE 8212

upper(c) == IF islower(c) THEN UpperChars[IndexOf(c, LowerChars)] ELSE c

lower(c) == IF isupper(c) THEN LowerChars[IndexOf(c, UpperChars)] ELSE c

(***************************************************************************)
(* MRZParser.calculate_check_digit                                         *)
(***************************************************************************)
weights_731_swapped == <<7, 1, 3>>

weights == <<7, 3, 1>>

\* the character value with the letter branch left out
CharValue_no_letters(char) ==
    IF char = "<" THEN 0
    ELSE IF isdigit(char) THEN int(char)
    ELSE 0

CharValue(char) ==
    IF char = "<" THEN 0
    ELSE IF isdigit(char) THEN int(char)
    ELSE IF isalpha(char) THEN ord(char) - ord("A") + 10
    ELSE 0

RECURSIVE CheckTotal(_, _)
CheckTotal(data, n) ==
    IF n = 0 THEN 0
    ELSE CheckTotal(data, n - 1) + CharValue(data[n]) * weights[((n - 1) % 3) + 1]

calculate_check_digit(data) == CheckTotal(data, Len(data)) % 10

(***************************************************************************)
(* MRZParser.verify_check_digit                                            *)
(***************************************************************************)
str_isdigit(s) == Len(s) > 0 /\ \A i \in 1..Len(s) : isdigit(s[i])

RECURSIVE str_int(_, _)
str_int(s, n) == IF n = 0 THEN 0 ELSE 10 * str_int(s, n - 1) + int(s[n])

verify_check_digit(data, check_digit) ==
    LET expected == calculate_check_digit(data)
        actual == IF str_isdigit(check_digit)
                  THEN str_int(check_digit, Len(check_digit)) ELSE -1
    IN expected = actual

(***************************************************************************)
(* Python str operations used by the decoder                               *)
(***************************************************************************)
Min(a, b) == IF a < b THEN a ELSE b
Max(a, b) == IF a > b THEN a ELSE b

\* s[a:b] with 0 <= a, 0 <= b (Python slice, clamped to the string)
Slice(s, a, b) == SubSeq(s, a + 1, Min(b, Len(s)))

\* s[a:]
SliceFrom(s, a) == SubSeq(s, a + 1, Len(s))

\* s.rstrip(chars)
RECURSIVE rstrip(_, _)
rstrip(s, chars) ==
    IF Len(s) > 0 /\ s[Len(s)] \in chars THEN rstrip(SubSeq(s, 1, Len(s) - 1), chars)
    ELSE s

\* s.lstrip(chars)
RECURSIVE lstrip(_, _)
lstrip(s, chars) ==
    IF Len(s) > 0 /\ s[1] \in chars THEN lstrip(Tail(s), chars)
    ELSE s

Whitespace == {" ", "\n", "\t"}

\* s.strip()
strip(s) == lstrip(rstrip(s, Whitespace), Whitespace)

\* s.replace(old, new) for a one-character old and a new of length 0 or 1
RECURSIVE replace(_, _, _)
replace(s, old, new) ==
    IF s = <<>> THEN <<>>
    ELSE (IF s[1] = old THEN new ELSE <<s[1]>>) \o replace(Tail(s), old, new)

\* s.ljust(width, fill)
RECURSIVE ljust(_, _, _)
ljust(s, width, fill) ==
    IF Len(s) >= width THEN s ELSE ljust(Append(s, fill), width, fill)

startswith(s, c) == Len(s) > 0 /\ s[1] = c
endswith(s, c) == Len(s) > 0 /\ s[Len(s)] = c

\* s.count(c)
count(s, c) == Cardinality({i \in 1..Len(s) : s[i] = c})

\* s.upper()
str_upper(s) == [i \in 1..Len(s) |-> upper(s[i])]

str_lower(s) == [i \in 1..Len(s) |-> lower(s[i])]

\* s.find(c + c): 1-based position of the first two-character run, 0 if none
FindPair(s, c) ==
    IF \E i \in 1..(Len(s) - 1) : s[i] = c /\ s[i + 1] = c
    THEN CHOOSE i \in 1..(Len(s) - 1) :
            /\ s[i] = c /\ s[i + 1] = c
            /\ \A j \in 1..(i - 1) : ~(s[j] = c /\ s[j + 1] = c)
    ELSE 0

\* s.split(c + c): the list of parts, scanning left to right
RECURSIVE split_pair(_, _)
split_pair(s, c) ==
    LET i == FindPair(s, c)
    IN IF i = 0 THEN <<s>>
       ELSE <<SubSeq(s, 1, i - 1)>> \o split_pair(SliceFrom(s, i + 1), c)

\* s.split(c) for a one-character separator
RECURSIVE split(_, _)
split(s, c) ==
    IF \E i \in 1..Len(s) : s[i] = c
    THEN LET i == CHOOSE k \in 1..Len(s) : s[k] = c /\ \A j \in 1..(k - 1) : s[j] # c
         IN <<SubSeq(s, 1, i - 1)>> \o split(SliceFrom(s, i), c)
    ELSE <<s>>

(***************************************************************************)
(* MRZParser.parse_date; datetime(year, month, day) raises ValueError      *)
(* unless the triple is a date of the proleptic Gregorian calendar.        *)
(***************************************************************************)
IsLeap(year) == (year % 4 = 0) /\ ((year % 100 # 0) \/ (year % 400 = 0))

DaysInMonth(year, month) ==
    IF month = 2 THEN (IF IsLeap(year) THEN 29 ELSE 28)
    ELSE IF month \in {4, 6, 9, 11} THEN 30
    ELSE 31

datetime_ok(year, month, day) ==
    /\ 1 <= year /\ year <= 9999
    /\ 1 <= month /\ month <= 12
    /\ 1 <= day /\ day <= DaysInMonth(year, month)

\* format(n, "0{width}d")
RECURSIVE Decimal(_)
Decimal(n) == IF n < 10 THEN <<DigitChars[n + 1]>>
              ELSE Append(Decimal(n \div 10), DigitChars[(n % 10) + 1])

RECURSIVE ZeroPad(_, _)
ZeroPad(s, width) == IF Len(s) >= width THEN s ELSE ZeroPad(<<"0">> \o s, width)

Format(n, width) == ZeroPad(Decimal(n), width)

IsoFormat(year, mm, dd) ==
    Format(year, 4) \o <<"-">> \o Format(mm, 2) \o <<"-">> \o Format(dd, 2)

\* the century rule: below 50 is 20YY, otherwise 19YY
century_year_le(yy) == IF yy <= 50 THEN 2000 + yy ELSE 1900 + yy

century_year(yy) == IF yy < 50 THEN 2000 + yy ELSE 1900 + yy

parse_date(date_str) ==
    IF Len(date_str) # 6 \/ ~str_isdigit(date_str) THEN None
    ELSE LET yy == str_int(Slice(date_str, 0, 2), 2)
             mm == str_int(Slice(date_str, 2, 4), 2)
             dd == str_int(Slice(date_str, 4, 6), 2)
             year == century_year(yy)
         IN IF datetime_ok(year, mm, dd) THEN Some(IsoFormat(year, mm, dd))
            ELSE None

(***************************************************************************)
(* MRZParser.parse_td3_mrz                                                 *)
(***************************************************************************)
\* the OCR correction of a three-letter country code: 1 -> I at either end
fix_country(code) ==
    LET a == IF startswith(code, "1") /\ Len(code) = 3
             THEN <<"I">> \o SliceFrom(code, 1) ELSE code
    IN IF endswith(a, "1") /\ Len(a) = 3
       THEN SubSeq(a, 1, Len(a) - 1) \o <<"I">> ELSE a

\* the date-of-birth columns of line 2
dob_columns_shifted(line2) == Slice(line2, 14, 20)

dob_columns(line2) == Slice(line2, 13, 19)

\* all() over the field-level entries only, the composite left out
all_values_but_composite(checks) == \A k \in DOMAIN checks \ {"composite"} : checks[k]

\* all(checks.values())
all_values(checks) == \A k \in DOMAIN checks : checks[k]

\* the composite data without the check digits of the four fields
composite_data_fields_only(line2) ==
    Slice(line2, 0, 9) \o Slice(line2, 13, 19) \o Slice(line2, 21, 27) \o Slice(line2, 28, 42)

\* the data of the composite check: the four fields, each with its check digit
composite_data(line2) ==
    Slice(line2, 0, 10) \o Slice(line2, 13, 20) \o Slice(line2, 21, 43)

td3_fields(line1, line2) ==
    LET document_type == Slice(line1, 0, 1)
        issuing_country == fix_country(replace(Slice(line1, 2, 5), "<", <<>>))
        names == rstrip(SliceFrom(line1, 5), {"<"})
        name_parts == split_pair(names, "<")
        surname == IF Len(name_parts) > 0
                   THEN strip(replace(name_parts[1], "<", <<" ">>)) ELSE <<>>
        given_names == IF Len(name_parts) > 1
                       THEN strip(replace(name_parts[2], "<", <<" ">>)) ELSE <<>>
        passport_number == replace(Slice(line2, 0, 9), "<", <<>>)
        passport_check == Slice(line2, 9, 10)
        nationality == fix_country(replace(Slice(line2, 10, 13), "<", <<>>))
        dob == dob_columns(line2)
        dob_check == Slice(line2, 19, 20)
        sex == Slice(line2, 20, 21)
        expiry == Slice(line2, 21, 27)
        expiry_check == Slice(line2, 27, 28)
        personal_number == replace(Slice(line2, 28, 42), "<", <<>>)
        personal_check == Slice(line2, 42, 43)
        final_check == Slice(line2, 43, 44)
        checks == [passport_number |-> verify_check_digit(Slice(line2, 0, 9), passport_check),
                   date_of_birth |-> verify_check_digit(dob, dob_check),
                   date_of_expiry |-> verify_check_digit(expiry, expiry_check),
                   personal_number |->
                       IF personal_number # <<>>
                       THEN verify_check_digit(Slice(line2, 28, 42), personal_check)
                       ELSE TRUE,
                   composite |-> verify_check_digit(composite_data(line2), final_check)]
    IN [document_type |-> document_type,
        issuing_country |-> issuing_country,
        surname |-> surname,
        given_names |-> given_names,
        passport_number |-> passport_number,
        nationality |-> nationality,
        date_of_birth |-> parse_date(dob),
        sex |-> IF sex \in {<<"M">>, <<"F">>, <<"X">>} THEN sex ELSE <<"X">>,
        date_of_expiry |-> parse_date(expiry),
        personal_number |-> personal_number,
        check_digits |-> checks,
        valid_mrz_checksum |-> all_values(checks)]

\* parse_td3_mrz rejecting a pair only when both lines are short
parse_td3_mrz_both_short(mrz_lines) ==
    IF Len(mrz_lines) < 2 THEN None
    ELSE LET line1 == strip(mrz_lines[1])
             line2 == strip(mrz_lines[2])
         IN IF Len(line1) < 35 /\ Len(line2) < 35 THEN None
            ELSE Some(td3_fields(Slice(ljust(rstrip(line1, {"K", "X"}), 44, "<"), 0, 44),
                                 Slice(ljust(rstrip(line2, {"K", "X"}), 44, "<"), 0, 44)))

parse_td3_mrz(mrz_lines) ==
    IF Len(mrz_lines) < 2 THEN None
    ELSE LET line1 == strip(mrz_lines[1])
             line2 == strip(mrz_lines[2])
         IN IF Len(line1) < 35 \/ Len(line2) < 35 THEN None
            ELSE Some(td3_fields(Slice(ljust(rstrip(line1, {"K", "X"}), 44, "<"), 0, 44),
                                 Slice(ljust(rstrip(line2, {"K", "X"}), 44, "<"), 0, 44)))

(***************************************************************************)
(* MRZParser.parse_mrz                                                     *)
(***************************************************************************)
\* the per-line cleanup of the first loop; None for a line that is dropped
clean_line_keep_spaces(raw) ==
    IF strip(raw) = <<>> THEN None
    ELSE LET line == replace(replace(strip(raw), "emdash", <<"<">>), "-", <<"<">>)
         IN IF (endswith(line, "K") \/ endswith(line, "X")) /\ Len(line) < 44
            THEN Some(rstrip(line, {"K", "X"}))
            ELSE Some(line)

clean_line(raw) ==
    IF strip(raw) = <<>> THEN None
    ELSE LET line == replace(replace(replace(strip(raw), " ", <<>>),
                                     "emdash", <<"<">>), "-", <<"<">>)
         IN IF (endswith(line, "K") \/ endswith(line, "X")) /\ Len(line) < 44
            THEN Some(rstrip(line, {"K", "X"}))
            ELSE Some(line)

RECURSIVE Flatten(_)
Flatten(opts) == IF opts = <<>> THEN <<>> ELSE Head(opts) \o Flatten(Tail(opts))

cleaned_lines_of(mrz_text) ==
    LET lines == split(strip(mrz_text), "\n")
    IN Flatten([i \in 1..Len(lines) |-> clean_line(lines[i])])

\* the test of the second loop: the line is kept as an MRZ line
looks_like_mrz(line) ==
    LET valid_chars == Cardinality({i \in 1..Len(line) : isalnum(line[i]) \/ line[i] = "<"})
        starts_with_doc_type == Len(line) > 0 /\ line[1] \in {"P", "A", "C", "I", "V"}
        has_mrz_markers == \E i \in 1..Len(line) : line[i] = "<"
    IN /\ ~(\E i \in 1..Len(line) : line[i] = " ")
       /\ Len(line) >= 35 /\ Len(line) <= 50
       /\ valid_chars * 10 > 9 * Len(line)
       /\ has_mrz_markers
       /\ (starts_with_doc_type \/ count(line, "<") >= 5)

mrz_lines_of(cleaned_lines) == SelectSeq(cleaned_lines, looks_like_mrz)

\* parse_mrz handing the last two selected lines to parse_td3_mrz
parse_mrz_last_two(mrz_text) ==
    LET mrz_lines == mrz_lines_of(cleaned_lines_of(mrz_text))
    IN IF mrz_lines = <<>> THEN None
       ELSE parse_td3_mrz(SubSeq(mrz_lines, Max(1, Len(mrz_lines) - 1), Len(mrz_lines)))

parse_mrz(mrz_text) ==
    LET mrz_lines == mrz_lines_of(cleaned_lines_of(mrz_text))
    IN IF mrz_lines = <<>> THEN None ELSE parse_td3_mrz(mrz_lines)

(***************************************************************************)
(* datetime values: a calendar date <<year, month, day>> and the time      *)
(* elapsed since midnight; the comparison of two datetime values           *)
(***************************************************************************)
DT(date, secs) == [date |-> date, secs |-> secs]

dt_lt(a, b) ==
    \/ a.date[1] < b.date[1]
    \/ a.date[1] = b.date[1] /\ a.date[2] < b.date[2]
    \/ a.date[1] = b.date[1] /\ a.date[2] = b.date[2] /\ a.date[3] < b.date[3]
    \/ a.date = b.date /\ a.secs < b.secs

dt_le(a, b) == dt_lt(a, b) \/ a = b

\* datetime.strptime(s, '%Y-%m-%d'): None stands for ValueError.  %Y takes
\* four digits, %m and %d one or two, and the triple must be a date.
strptime(s) ==
    LET parts == split(s, "-")
    IN IF /\ Len(parts) = 3
          /\ Len(parts[1]) = 4 /\ str_isdigit(parts[1])
          /\ Len(parts[2]) \in {1, 2} /\ str_isdigit(parts[2])
          /\ Len(parts[3]) \in {1, 2} /\ str_isdigit(parts[3])
       THEN LET year == str_int(parts[1], 4)
                month == str_int(parts[2], Len(parts[2]))
                day == str_int(parts[3], Len(parts[3]))
            IN IF datetime_ok(year, month, day)
               THEN Some(DT(<<year, month, day>>, 0))
               ELSE None
       ELSE None

(***************************************************************************)
(* PassportValidator                                                       *)
(***************************************************************************)
VALID_COUNTRY_CODES == {
    <<"A","F","G">>, <<"A","L","B">>, <<"D","Z","A">>, <<"A","N","D">>, <<"A","G","O">>, <<"A","T","G">>, <<"A","R","G">>, <<"A","R","M">>, <<"A","U","S">>, <<"A","U","T">>,
    <<"A","Z","E">>, <<"B","H","S">>, <<"B","H","R">>, <<"B","G","D">>, <<"B","R","B">>, <<"B","L","R">>, <<"B","E","L">>, <<"B","L","Z">>, <<"B","E","N">>, <<"B","T","N">>,
    <<"B","O","L">>, <<"B","I","H">>, <<"B","W","A">>, <<"B","R","A">>, <<"B","R","N">>, <<"B","G","R">>, <<"B","F","A">>, <<"B","D","I">>, <<"K","H","M">>, <<"C","M","R">>,
    <<"C","A","N">>, <<"C","P","V">>, <<"C","A","F">>, <<"T","C","D">>, <<"C","H","L">>, <<"C","H","N">>, <<"C","O","L">>, <<"C","O","M">>, <<"C","O","G">>, <<"C","R","I">>,
    <<"C","I","V">>, <<"H","R","V">>, <<"C","U","B">>, <<"C","Y","P">>, <<"C","Z","E">>, <<"P","R","K">>, <<"C","O","D">>, <<"D","N","K">>, <<"D","J","I">>, <<"D","M","A">>,
    <<"D","O","M">>, <<"E","C","U">>, <<"E","G","Y">>, <<"S","L","V">>, <<"G","N","Q">>, <<"E","R","I">>, <<"E","S","T">>, <<"E","T","H">>, <<"F","J","I">>, <<"F","I","N">>,
    <<"F","R","A">>, <<"G","A","B">>, <<"G","M","B">>, <<"G","E","O">>, <<"D","E","U">>, <<"G","H","A">>, <<"G","R","C">>, <<"G","R","D">>, <<"G","T","M">>, <<"G","I","N">>,
    <<"G","N","B">>, <<"G","U","Y">>, <<"H","T","I">>, <<"H","N","D">>, <<"H","U","N">>, <<"I","S","L">>, <<"I","N","D">>, <<"I","D","N">>, <<"I","R","N">>, <<"I","R","Q">>,
    <<"I","R","L">>, <<"I","S","R">>, <<"I","T","A">>, <<"J","A","M">>, <<"J","P","N">>, <<"J","O","R">>, <<"K","A","Z">>, <<"K","E","N">>, <<"K","I","R">>, <<"K","W","T">>,
    <<"K","G","Z">>, <<"L","A","O">>, <<"L","V","A">>, <<"L","B","N">>, <<"L","S","O">>, <<"L","B","R">>, <<"L","B","Y">>, <<"L","I","E">>, <<"L","T","U">>, <<"L","U","X">>,
    <<"M","K","D">>, <<"M","D","G">>, <<"M","W","I">>, <<"M","Y","S">>, <<"M","D","V">>, <<"M","L","I">>, <<"M","L","T">>, <<"M","H","L">>, <<"M","R","T">>, <<"M","U","S">>,
    <<"M","E","X">>, <<"F","S","M">>, <<"M","C","O">>, <<"M","N","G">>, <<"M","N","E">>, <<"M","A","R">>, <<"M","O","Z">>, <<"M","M","R">>, <<"N","A","M">>, <<"N","R","U">>,
    <<"N","P","L">>, <<"N","L","D">>, <<"N","Z","L">>, <<"N","I","C">>, <<"N","E","R">>, <<"N","G","A">>, <<"N","O","R">>, <<"O","M","N">>, <<"P","A","K">>, <<"P","L","W">>,
    <<"P","A","N">>, <<"P","N","G">>, <<"P","R","Y">>, <<"P","E","R">>, <<"P","H","L">>, <<"P","O","L">>, <<"P","R","T">>, <<"Q","A","T">>, <<"K","O","R">>, <<"M","D","A">>,
    <<"R","O","U">>, <<"R","U","S">>, <<"R","W","A">>, <<"K","N","A">>, <<"L","C","A">>, <<"V","C","T">>, <<"W","S","M">>, <<"S","M","R">>, <<"S","T","P">>, <<"S","A","U">>,
    <<"S","E","N">>, <<"S","R","B">>, <<"S","Y","C">>, <<"S","L","E">>, <<"S","G","P">>, <<"S","V","K">>, <<"S","V","N">>, <<"S","L","B">>, <<"S","O","M">>, <<"Z","A","F">>,
    <<"S","S","D">>, <<"E","S","P">>, <<"L","K","A">>, <<"S","D","N">>, <<"S","U","R">>, <<"S","W","Z">>, <<"S","W","E">>, <<"C","H","E">>, <<"S","Y","R">>, <<"T","J","K">>,
    <<"T","H","A">>, <<"T","L","S">>, <<"T","G","O">>, <<"T","O","N">>, <<"T","T","O">>, <<"T","U","N">>, <<"T","U","R">>, <<"T","K","M">>, <<"T","U","V">>, <<"T","W","N">>,
    <<"U","G","A">>, <<"U","K","R">>, <<"A","R","E">>, <<"G","B","R">>, <<"T","Z","A">>, <<"U","S","A">>, <<"U","R","Y">>, <<"U","Z","B">>, <<"V","U","T">>, <<"V","E","N">>,
    <<"V","N","M">>, <<"Y","E","M">>, <<"Z","M","B">>, <<"Z","W","E">>, <<"D","<","<">>}

VALID_DOCUMENT_TYPES == {<<"P">>, <<"A">>, <<"C">>, <<"I">>, <<"V">>}

\* a violation message: its fixed text and the value formatted into it
Msg(text, detail) == [text |-> text, detail |-> detail]

\* bool(x) of an Optional[str]: None and '' are false
truthy(opt) == opt # None /\ opt[1] # <<>>

\* check_details.get(k) taken as a condition: a missing key gives None
check_get(check_details, k) == k \in DOMAIN check_details /\ check_details[k]

\* the critical checks with the composite check counted among them
failed_critical_with_composite(check_details) ==
    SelectSeq(<<"passport_number", "date_of_birth", "date_of_expiry", "composite">>,
              LAMBDA k : ~check_get(check_details, k))

\* [k for k, v in critical_checks.items() if not v]
failed_critical(check_details) ==
    SelectSeq(<<"passport_number", "date_of_birth", "date_of_expiry">>,
              LAMBDA k : ~check_get(check_details, k))

\* ', '.join(failed_critical) keeps the names and their order
checksum_errors(check_details) ==
    IF failed_critical(check_details) # <<>>
    THEN <<Msg("Critical MRZ checksum validation failed", failed_critical(check_details))>>
    ELSE <<>>

\* dob < datetime(1900, 1, 1), with the boundary day counted as too old
too_far_in_past_inclusive(dob) == dt_le(dob, DT(<<1900, 1, 1>>, 0))

\* dob < datetime(1900, 1, 1)
too_far_in_past(dob) == dt_lt(dob, DT(<<1900, 1, 1>>, 0))

birth_errors(dob_str, today) ==
    IF truthy(dob_str)
    THEN LET dob == strptime(dob_str[1])
         IN IF dob = None
            THEN <<Msg("Invalid date of birth format", dob_str[1])>>
            ELSE (IF dt_lt(today, dob[1])
                  THEN <<Msg("Date of birth is in the future", <<>>)>> ELSE <<>>)
                 \o (IF too_far_in_past(dob[1])
                     THEN <<Msg("Date of birth is too far in the past", <<>>)>> ELSE <<>>)
    ELSE <<Msg("Missing date of birth", <<>>)>>

expiry_errors(expiry_str, today) ==
    IF truthy(expiry_str)
    THEN LET expiry == strptime(expiry_str[1])
         IN IF expiry = None
            THEN <<Msg("Invalid expiry date format", expiry_str[1])>>
            ELSE IF dt_lt(expiry[1], today)
                 THEN <<Msg("Passport has expired", <<>>)>> ELSE <<>>
    ELSE <<Msg("Missing expiry date", <<>>)>>

\* the loop over required_fields left at its first missing field
required_errors_first_only(data) ==
    IF data.surname = <<>>
    THEN <<Msg("Missing required field", <<"surname">>)>>
    ELSE IF data.passport_number = <<>>
         THEN <<Msg("Missing required field", <<"passport_number">>)>> ELSE <<>>

\* for field in ['surname', 'passport_number']: if not data.get(field)
required_errors(data) ==
    (IF data.surname = <<>>
     THEN <<Msg("Missing required field", <<"surname">>)>> ELSE <<>>)
    \o (IF data.passport_number = <<>>
        THEN <<Msg("Missing required field", <<"passport_number">>)>> ELSE <<>>)

\* the table test without the test for an empty code
country_errors_unguarded(code, text) ==
    IF code \notin VALID_COUNTRY_CODES THEN <<Msg(text, code)>> ELSE <<>>

\* the country rule looking up the code padded with '<' to three characters
country_errors_padded(code, text) ==
    IF code # <<>> /\ ljust(code, 3, "<") \notin VALID_COUNTRY_CODES
    THEN <<Msg(text, code)>> ELSE <<>>

\* if code and code not in VALID_COUNTRY_CODES, code being upper-cased
country_errors(code, text) ==
    IF code # <<>> /\ code \notin VALID_COUNTRY_CODES THEN <<Msg(text, code)>> ELSE <<>>

\* if data.get('document_type') not in VALID_DOCUMENT_TYPES
document_type_errors(document_type) ==
    IF document_type \notin VALID_DOCUMENT_TYPES
    THEN <<Msg("Invalid document type", document_type)>> ELSE <<>>

\* is_valid with one violation tolerated
is_valid_of_at_most_one(errors) == Len(errors) <= 1

\* is_valid = len(errors) == 0
is_valid_of(errors) == Len(errors) = 0

\* today is the value datetime.now() returns during the call
validate_passport(data, today) ==
    LET issuing_country == str_upper(data.issuing_country)
        nationality == str_upper(data.nationality)
        errors ==
            document_type_errors(data.document_type)
            \o country_errors(issuing_country, "Invalid issuing country code")
            \o country_errors(nationality, "Invalid nationality code")
            \o checksum_errors(data.check_digits)
            \o birth_errors(data.date_of_birth, today)
            \o expiry_errors(data.date_of_expiry, today)
            \o required_errors(data)
    IN [is_valid |-> is_valid_of(errors), errors |-> errors]

(***************************************************************************)
(* Check-digit calls: the input string is drawn from all strings of at     *)
(* most MaxDataLen characters over CheckAlphabet, from the strings that    *)
(* put one character of the MRZ alphabet after fillers, and from the       *)
(* vectors of test_passport_ocr.py; the check digit handed to              *)
(* verify_check_digit is drawn from CheckDigitInputs.                      *)
(***************************************************************************)
MaxDataLen == 4

CheckAlphabet == {"<", "0", "3", "9", "A", "K", "Z"}

SeqsUpTo(S, n) == UNION {[1..k -> S] : k \in 0..n}

V_AB2134 == <<"A","B","2","1","3","4","<","<","<">>
V_780131 == <<"7","8","0","1","3","1">>
V_L898902C == <<"L","8","9","8","9","0","2","C","<">>
V_690806 == <<"6","9","0","8","0","6">>
V_940623 == <<"9","4","0","6","2","3">>
V_ZE184226 == <<"Z","E","1","8","4","2","2","6","<">>

CheckVectors == {V_AB2134, V_780131, V_L898902C, V_690806, V_940623, V_ZE184226,
                 <<"a","1","-">>, <<"<"," ","b">>}

MRZAlphabet ==
    {"<"} \cup {DigitChars[i] : i \in 1..10} \cup {UpperChars[i] : i \in 1..26}

\* every character of the MRZ alphabet at every position, after fillers
FillerThenChar == {[i \in 1..k |-> IF i = k THEN c ELSE "<"] :
                      k \in 1..MaxDataLen, c \in MRZAlphabet}

CheckDataInputs ==
    SeqsUpTo(CheckAlphabet, MaxDataLen) \cup FillerThenChar \cup CheckVectors

CheckDigitInputs == {<<"0">>, <<"1">>, <<"3">>, <<"5">>, <<"6">>, <<"7">>,
                     <<"<">>, <<"A">>, <<>>, <<"0","5">>}

NoClock == [date |-> <<1, 1, 1>>, secs |-> 0]

\* no container is being processed: no candidate list, no call of process_image
NoContainer == image_files = <<>> /\ calls = <<>>

\* the state of the web service: its background jobs, the temporary upload
\* files that exist, and the calls of publish_ocr_result
service == <<jobs, tmp_files, published>>

\* no request has reached the service
NoService == jobs = <<>> /\ tmp_files = {} /\ published = <<>>

InitCheckDigit ==
    /\ pc = "ready"
    /\ input \in [data : CheckDataInputs, check_digit : {<<>>}]
    /\ ret = None
    /\ now = NoClock
    /\ NoContainer
    /\ NoService

CallCalculateCheckDigit ==
    /\ pc = "ready"
    /\ pc' = "calculate_check_digit"
    /\ ret' = calculate_check_digit(input.data)
    /\ UNCHANGED <<input, now, image_files, calls>>
    /\ UNCHANGED service

CallVerifyCheckDigit ==
    /\ pc = "ready"
    /\ \E cd \in CheckDigitInputs :
          /\ input' = [input EXCEPT !.check_digit = cd]
          /\ ret' = verify_check_digit(input.data, cd)
    /\ pc' = "verify_check_digit"
    /\ UNCHANGED <<now, image_files, calls>>
    /\ UNCHANGED service

NextCheckDigit == CallCalculateCheckDigit \/ CallVerifyCheckDigit

SpecCheckDigit == InitCheckDigit /\ [][NextCheckDigit]_vars

(***************************************************************************)
(* Decoder calls: parse_date on six-character strings assembled from the   *)
(* year, month and day pairs below and on malformed strings;               *)
(* parse_td3_mrz on every list of at most MaxLines lines of TD3Pool;       *)
(* parse_mrz on every text of at most MaxLines raw lines of RawPool.       *)
(***************************************************************************)
MaxLines == 3

YearPairs == {<<"0","0">>, <<"2","0">>, <<"4","9">>, <<"5","0">>, <<"8","4">>, <<"9","9">>}
MonthPairs == {<<"0","0">>, <<"0","1">>, <<"0","2">>, <<"0","4">>, <<"1","2">>, <<"1","3">>}
DayPairs == {<<"0","0">>, <<"0","1">>, <<"0","2">>, <<"2","8">>, <<"2","9">>,
             <<"3","0">>, <<"3","1">>, <<"3","2">>, <<"4","0">>}

MalformedDates == {<<>>, <<"a","b","c","1","2","3">>, <<"8","4","0","1","0">>,
                   <<"8","4","0","1","0","2","0">>, <<"8","4"," ","1","0","2">>,
                   <<"8","4","0","1","<","<">>, <<"<","<","<","<","<","<">>}

DateInputs ==
    {yy \o mm \o dd : yy \in YearPairs, mm \in MonthPairs, dd \in DayPairs}
        \cup MalformedDates

GBR1 ==
    <<"P","<","G","B","R","J","E","N","N","I","N","G","S","<","<","P","A","U",
      "L","<","M","I","C","H","A","E","L","<","<","<","<","<","<","<","<","<",
      "<","<","<","<","<","<","<">>

GBR2 ==
    <<"0","1","2","3","4","5","6","7","8","4","G","B","R","8","4","1","1","0",
      "2","5","M","0","8","1","0","0","5","0","4","<","<","<","<","<","<","<",
      "<","<","<","<","<","<","<","0","2">>

UTO1 ==
    <<"P","<","U","T","O","E","R","I","K","S","S","O","N","<","<","A","N","N",
      "A","<","M","A","R","I","A","<","<","<","<","<","<","<","<","<","<","<",
      "<","<","<","<","<","<","<","<">>

UTO2 ==
    <<"L","8","9","8","9","0","2","C","3","6","U","T","O","7","4","0","8","1",
      "2","2","F","1","2","0","4","1","5","9","Z","E","1","8","4","2","2","6",
      "B","<","<","<","<","<","1","0">>

NoiseLine ==
    <<"P","A","S","S","P","O","R","T",".","N","O",".","0","1","2","3","4","5",
      "6","-","7","8",".","(","U","N","I","T","E","D",".","K","I","N","G","D",
      "O","M",")",".","<","G","B","R",">">>

\* the text of test_parse_mrz_with_cleanup: indented lines with inner spaces
Indent == <<" "," "," "," "," "," "," "," ">>

GBR1Spaced == Indent \o Slice(GBR1, 0, 5) \o <<" ">> \o SliceFrom(GBR1, 5)

GBR2Spaced ==
    Indent \o Slice(GBR2, 0, 10) \o <<" ">> \o Slice(GBR2, 10, 13) \o <<" ">>
           \o Slice(GBR2, 13, 20) \o <<" ">> \o Slice(GBR2, 20, 21) \o <<" ">>
           \o Slice(GBR2, 21, 29) \o <<" ">> \o SliceFrom(GBR2, 29)

\* line 2 with the month 13 and the day 40 in the date-of-birth columns
UTO2BadBirth == Slice(UTO2, 0, 13) \o <<"7","4","1","3","4","0">> \o SliceFrom(UTO2, 19)

\* line 1 whose trailing fillers were read as K and X
GBR1Tail == Slice(GBR1, 0, 39) \o <<"K","K","X","K">>

TD3Pool == {GBR1, GBR2, UTO1, UTO2, UTO2BadBirth, GBR1Tail,
            Slice(GBR1, 0, 34), Slice(UTO2, 0, 35), <<" ">> \o Slice(UTO1, 0, 34) \o <<" ">>,
            Slice(GBR1, 0, 5)}

RawPool == {GBR1, GBR2, UTO2BadBirth, GBR1Spaced, GBR2Spaced, GBR1Tail,
            NoiseLine, Slice(GBR2, 0, 34), Indent, <<>>}

RECURSIVE JoinLines(_)
JoinLines(lines) ==
    IF lines = <<>> THEN <<>>
    ELSE IF Len(lines) = 1 THEN lines[1]
    ELSE lines[1] \o <<"\n">> \o JoinLines(Tail(lines))

InitDecoder ==
    /\ pc = "ready"
    /\ \/ input \in [date_str : DateInputs]
       \/ input \in [mrz_lines : SeqsUpTo(TD3Pool, MaxLines)]
       \/ input \in [mrz_text : {JoinLines(ls) : ls \in SeqsUpTo(RawPool, MaxLines)}]
    /\ ret = None
    /\ now = NoClock
    /\ NoContainer
    /\ NoService

CallParseDate ==
    /\ pc = "ready"
    /\ "date_str" \in DOMAIN input
    /\ pc' = "parse_date"
    /\ ret' = parse_date(input.date_str)
    /\ UNCHANGED <<input, now, image_files, calls>>
    /\ UNCHANGED service

CallParseTD3 ==
    /\ pc = "ready"
    /\ "mrz_lines" \in DOMAIN input
    /\ pc' = "parse_td3_mrz"
    /\ ret' = parse_td3_mrz(input.mrz_lines)
    /\ UNCHANGED <<input, now, image_files, calls>>
    /\ UNCHANGED service

CallParseMRZ ==
    /\ pc = "ready"
    /\ "mrz_text" \in DOMAIN input
    /\ pc' = "parse_mrz"
    /\ ret' = parse_mrz(input.mrz_text)
    /\ UNCHANGED <<input, now, image_files, calls>>
    /\ UNCHANGED service

NextDecoder == CallParseDate \/ CallParseTD3 \/ CallParseMRZ

SpecDecoder == InitDecoder /\ [][NextDecoder]_vars

(***************************************************************************)
(* Validator calls: validate_passport on the records assembled from the    *)
(* field values below (the fields the validator reads), at a validation    *)
(* instant of the day ValidationDay: midnight or noon.                     *)
(***************************************************************************)
ValidationDay == <<2025, 6, 15>>

Clocks == {DT(ValidationDay, 0), DT(ValidationDay, 43200)}

DocumentTypes == {<<"P">>, <<"X">>}

\* <<issuing_country, nationality>>
CountryPairs == {<<<<"U","S","A">>, <<"U","S","A">>>>, <<<<"X","X","X">>, <<"U","S","A">>>>,
                 <<<<>>, <<"U","S","A">>>>, <<<<"U","S","A">>, <<>>>>, <<<<"g","b","r">>, <<"D">>>>}

\* <<surname, passport_number>>
NamePairs == {<<<<"S","M","I","T","H">>, <<"1","2","3","4","5","6","7","8","9">>>>, <<<<>>, <<"1","2","3","4","5","6","7","8","9">>>>,
              <<<<"S","M","I","T","H">>, <<>>>>, <<<<>>, <<>>>>}

BirthInputs == {None, Some(<<>>), Some(<<"1","9","8","5","-","0","2","-","3","0">>),
                Some(<<"1","8","9","9","-","1","2","-","3","1">>), Some(<<"1","9","0","0","-","0","1","-","0","1">>), Some(<<"1","9","8","5","-","0","1","-","1","5">>),
                Some(<<"2","0","2","5","-","0","6","-","1","5">>), Some(<<"2","0","2","5","-","0","6","-","1","6">>)}

ExpiryInputs == {None, Some(<<"2","0","2","5","/","0","6","/","1","6">>), Some(<<"2","0","2","0","-","0","1","-","1","5">>), Some(<<"2","0","2","5","-","0","6","-","1","4">>),
                 Some(<<"2","0","2","5","-","0","6","-","1","5">>), Some(<<"2","0","2","5","-","0","6","-","1","6">>)}

CheckMaps == [{"passport_number", "date_of_birth", "date_of_expiry",
               "personal_number", "composite"} -> BOOLEAN]

ValidatorInputs ==
    {[document_type |-> t,
      issuing_country |-> c[1],
      nationality |-> c[2],
      surname |-> n[1],
      passport_number |-> n[2],
      date_of_birth |-> b,
      date_of_expiry |-> e,
      check_digits |-> k] :
        t \in DocumentTypes, c \in CountryPairs, n \in NamePairs,
        b \in BirthInputs, e \in ExpiryInputs, k \in CheckMaps}

InitValidator ==
    /\ pc = "ready"
    /\ input \in [data : ValidatorInputs]
    /\ ret = None
    /\ now \in Clocks
    /\ NoContainer
    /\ NoService

CallValidatePassport ==
    /\ pc = "ready"
    /\ pc' = "validate_passport"
    /\ ret' = validate_passport(input.data, now)
    /\ UNCHANGED <<input, now, image_files, calls>>
    /\ UNCHANGED service

NextValidator == CallValidatePassport

SpecValidator == InitValidator /\ [][NextValidator]_vars

(***************************************************************************)
(* C2: for every string over the MRZ alphabet {A-Z, 0-9, '<'},             *)
(* calculate_check_digit returns (sum of value(s[i]) * w[i mod 3]) mod 10  *)
(* with w = [7,3,1], value('<') = 0, value(digit) = the digit and          *)
(* value(letter) = 10 + alphabetical rank (A=10 ... Z=35), and the result  *)
(* lies in 0..9.                                                           *)
(***************************************************************************)
IcaoValue(c) ==
    CASE c = "<" -> 0
      [] \E d \in 0..9 : DigitChars[d + 1] = c ->
            CHOOSE d \in 0..9 : DigitChars[d + 1] = c
      [] \E r \in 0..25 : UpperChars[r + 1] = c ->
            10 + (CHOOSE r \in 0..25 : UpperChars[r + 1] = c)

IcaoWeight(i) == CASE i % 3 = 0 -> 7 [] i % 3 = 1 -> 3 [] i % 3 = 2 -> 1

RECURSIVE IcaoSum(_)
IcaoSum(s) ==
    IF s = <<>> THEN 0
    ELSE IcaoSum(SubSeq(s, 1, Len(s) - 1))
         + IcaoValue(s[Len(s)]) * IcaoWeight(Len(s) - 1)

OverMRZAlphabet(s) ==
    \A i \in 1..Len(s) : s[i] = "<" \/ InTable(s[i], DigitChars) \/ InTable(s[i], UpperChars)

Calculated(data, digit) ==
    (pc = "calculate_check_digit" /\ input.data = data) => ret = digit

Verified(data, check_digit, verdict) ==
    (pc = "verify_check_digit" /\ input.data = data /\ input.check_digit = check_digit)
        => ret = verdict

BritishExampleParsed == pc = "parse_td3_mrz" /\ input.mrz_lines = <<GBR1, GBR2>>

BritishFields(passport_number) ==
    /\ ret # None
    /\ ret[1].document_type = <<"P">>
    /\ ret[1].issuing_country = <<"G","B","R">>
    /\ ret[1].surname = <<"J","E","N","N","I","N","G","S">>
    /\ ret[1].given_names = <<"P","A","U","L"," ","M","I","C","H","A","E","L">>
    /\ ret[1].passport_number = passport_number
    /\ ret[1].nationality = <<"G","B","R">>
    /\ ret[1].date_of_birth = Some(<<"1","9","8","4","-","1","1","-","0","2">>)
    /\ ret[1].sex = <<"M">>
    /\ ret[1].date_of_expiry = Some(<<"2","0","0","8","-","1","0","-","0","5">>)

DigitOf(c) == CHOOSE d \in 0..9 : DigitChars[d + 1] = c

TwoDigits(s, i) == 10 * DigitOf(s[i]) + DigitOf(s[i + 1])

MonthLengths == <<31, 28, 31, 30, 31, 30, 31, 31, 30, 31, 30, 31>>

SixDigits(s) == Len(s) = 6 /\ \A i \in 1..6 : \E d \in 0..9 : DigitChars[d + 1] = s[i]

\* 1950..2049 holds no century year other than 2000, which is a leap year
CalendarDate(s) ==
    LET mm == TwoDigits(s, 3)
        dd == TwoDigits(s, 5)
    IN /\ mm \in 1..12
       /\ dd >= 1
       /\ dd <= (IF mm = 2 /\ TwoDigits(s, 1) % 4 = 0 THEN 29 ELSE MonthLengths[mm])

CenturyDigits(s) == IF TwoDigits(s, 1) < 50 THEN <<"2","0">> ELSE <<"1","9">>

ExpectedDate(s) ==
    CenturyDigits(s) \o SubSeq(s, 1, 2) \o <<"-">> \o SubSeq(s, 3, 4) \o <<"-">> \o SubSeq(s, 5, 6)

DateParsed(date_str, result) ==
    (pc = "parse_date" /\ input.date_str = date_str) => ret = result

AcceptedLength(lines) ==
    /\ Len(lines) >= 2
    /\ Len(strip(lines[1])) >= 35
    /\ Len(strip(lines[2])) >= 35

IsIsoDate(d) ==
    /\ Len(d) = 10
    /\ d[5] = "-" /\ d[8] = "-"
    /\ \A i \in {1, 2, 3, 4, 6, 7, 9, 10} : \E k \in 0..9 : DigitChars[k + 1] = d[i]

C4_ParseDate ==
    /\ pc = "parse_date" =>
          IF SixDigits(input.date_str) /\ CalendarDate(input.date_str)
          THEN ret = Some(ExpectedDate(input.date_str))
          ELSE ret = None
    /\ DateParsed(<<"8","4","0","1","0","2">>, Some(<<"1","9","8","4","-","0","1","-","0","2">>))
    /\ DateParsed(<<"2","0","1","2","3","1">>, Some(<<"2","0","2","0","-","1","2","-","3","1">>))
    /\ DateParsed(<<"0","0","0","1","0","1">>, Some(<<"2","0","0","0","-","0","1","-","0","1">>))
    /\ DateParsed(<<"9","9","1","3","4","0">>, None)
    /\ DateParsed(<<"9","9","0","2","3","0">>, None)
    /\ DateParsed(<<"a","b","c","1","2","3">>, None)
    /\ (pc = "parse_td3_mrz" /\ AcceptedLength(input.mrz_lines)) =>
          /\ ret # None
          /\ \A f \in {"date_of_birth", "date_of_expiry"} :
                ret[1][f] = None \/ (Len(ret[1][f]) = 1 /\ IsIsoDate(ret[1][f][1]))

C4_Witness ==
    /\ pc = "parse_td3_mrz"
    /\ input.mrz_lines = <<UTO1, UTO2BadBirth>>
    /\ ret # None
    /\ ret[1].date_of_birth = None
    /\ ret[1].date_of_expiry = Some(<<"2","0","1","2","-","0","4","-","1","5">>)
    /\ ret[1].surname = <<"E","R","I","K","S","S","O","N">>

(***************************************************************************)
(* C5: if either of the two lines given to parse_td3_mrz is shorter than   *)
(* 35 characters the result is None, and parse_mrz returns a record only   *)
(* when it is decoded from two normalized lines of at least 35 characters  *)
(* each.                                                                   *)
(***************************************************************************)
C5_ShortLines ==
    /\ (/\ pc = "parse_td3_mrz"
        /\ Len(input.mrz_lines) >= 2
        /\ (Len(input.mrz_lines[1]) < 35 \/ Len(input.mrz_lines[2]) < 35))
          => ret = None
    /\ (pc = "parse_mrz" /\ ret # None) =>
          LET cleaned == cleaned_lines_of(input.mrz_text)
          IN \E i, j \in 1..Len(cleaned) :
                /\ i < j
                /\ Len(cleaned[i]) >= 35
                /\ Len(cleaned[j]) >= 35
                /\ ret = parse_td3_mrz(<<cleaned[i], cleaned[j]>>)

C5_Witness ==
    /\ pc = "parse_td3_mrz"
    /\ Len(input.mrz_lines) = 2
    /\ input.mrz_lines[1] = UTO1
    /\ Len(input.mrz_lines[2]) = 34
    /\ ret = None

(***************************************************************************)
(* C6: parse_mrz returns None whenever fewer than two normalized lines     *)
(* pass the line-selection filter; when two or more pass, the result is    *)
(* the record decoded from the first two of them in input order, whatever  *)
(* qualifying lines follow.                                                *)
(***************************************************************************)
Qualifying(mrz_text) == SelectSeq(cleaned_lines_of(mrz_text), looks_like_mrz)

C6_FirstTwoLines ==
    pc = "parse_mrz" =>
        LET q == Qualifying(input.mrz_text)
        IN IF Len(q) < 2 THEN ret = None
           ELSE /\ ret # None
                /\ ret = parse_td3_mrz(<<q[1], q[2]>>)

C6_Witness ==
    /\ pc = "parse_mrz"
    /\ Len(Qualifying(input.mrz_text)) = 3
    /\ Qualifying(input.mrz_text)[1] = GBR1
    /\ Qualifying(input.mrz_text)[3] = GBR2
    /\ ret # None
    /\ ret[1].surname = <<"J","E","N","N","I","N","G","S">>
    /\ ret[1].nationality = <<"U","T","O">>

(***************************************************************************)
(* Reading a verdict: the violations of a given text, and the value of a   *)
(* well-formed YYYY-MM-DD string as the number YYYYMMDD.                   *)
(***************************************************************************)
Validated == pc = "validate_passport"

Violations(text) == SelectSeq(ret.errors, LAMBDA e : e.text = text)

HasViolation(text) == Violations(text) # <<>>

DayNumber(date) == date[1] * 10000 + date[2] * 100 + date[3]

IsoNumber(d) == TwoDigits(d, 1) * 1000000 + TwoDigits(d, 3) * 10000
                    + TwoDigits(d, 6) * 100 + TwoDigits(d, 9)

LeapYear(y) == y % 4 = 0 /\ (y % 100 # 0 \/ y % 400 = 0)

\* the string is YYYY-MM-DD and names a calendar date
IsoCalendarDate(d) ==
    /\ IsIsoDate(d)
    /\ LET y == IsoNumber(d) \div 10000
           m == TwoDigits(d, 6)
           dd == TwoDigits(d, 9)
       IN /\ y >= 1
          /\ m \in 1..12
          /\ dd >= 1
          /\ dd <= (IF m = 2 /\ LeapYear(y) THEN 29 ELSE MonthLengths[m])

Present(opt) == opt # None /\ opt[1] # <<>>

(***************************************************************************)
(* C7: validate_passport returns is_valid = true if and only if the        *)
(* violation list is empty; a record with document type P, both country    *)
(* codes in the table, all check results true, a past date of birth not    *)
(* before 1900, an expiry date in the future and non-empty surname and     *)
(* passport number validates with an empty violation list.                 *)
(***************************************************************************)
CleanRecord(data) ==
    /\ data.document_type = <<"P">>
    /\ data.issuing_country \in VALID_COUNTRY_CODES
    /\ data.nationality \in VALID_COUNTRY_CODES
    /\ \A k \in DOMAIN data.check_digits : data.check_digits[k]
    /\ Present(data.date_of_birth)
    /\ IsoCalendarDate(data.date_of_birth[1])
    /\ IsoNumber(data.date_of_birth[1]) < DayNumber(now.date)
    /\ IsoNumber(data.date_of_birth[1]) >= 19000101
    /\ Present(data.date_of_expiry)
    /\ IsoCalendarDate(data.date_of_expiry[1])
    /\ IsoNumber(data.date_of_expiry[1]) > DayNumber(now.date)
    /\ data.surname # <<>>
    /\ data.passport_number # <<>>

C7_ValidIffNoViolation ==
    Validated =>
        /\ ret.is_valid <=> (ret.errors = <<>>)
        /\ CleanRecord(input.data) => (ret.errors = <<>> /\ ret.is_valid)

C7_Witness ==
    /\ Validated
    /\ CleanRecord(input.data)
    /\ input.data.date_of_birth = Some(<<"1","9","0","0","-","0","1","-","0","1">>)
    /\ ret.is_valid
    /\ ret.errors = <<>>

(***************************************************************************)
(* C8: only the three critical check results (passport_number,             *)
(* date_of_birth, date_of_expiry) affect the verdict: if any of them is    *)
(* false the record is invalid with one checksum violation naming exactly  *)
(* the failing fields; the personal_number and composite results change    *)
(* neither the verdict nor the violation list.                             *)
(***************************************************************************)
CriticalChecks == <<"passport_number", "date_of_birth", "date_of_expiry">>

FailingCritical(data) == SelectSeq(CriticalChecks, LAMBDA k : ~data.check_digits[k])

ChecksumText == "Critical MRZ checksum validation failed"

C8_CriticalChecksOnly ==
    Validated =>
        /\ IF FailingCritical(input.data) = <<>>
           THEN ~HasViolation(ChecksumText)
           ELSE /\ ~ret.is_valid
                /\ Len(Violations(ChecksumText)) = 1
                /\ Violations(ChecksumText)[1].detail = FailingCritical(input.data)
        /\ (input.data.check_digits.personal_number /\ input.data.check_digits.composite) =>
           \A p, c \in BOOLEAN :
              validate_passport([input.data EXCEPT !.check_digits.personal_number = p,
                                                   !.check_digits.composite = c], now) = ret

C8_Witness ==
    /\ Validated
    /\ ~input.data.check_digits.composite
    /\ ~input.data.check_digits.personal_number
    /\ FailingCritical(input.data) = <<>>
    /\ ~HasViolation(ChecksumText)
    /\ ret.is_valid

(***************************************************************************)
(* C9: validate_passport reports the 'expired' violation exactly when the  *)
(* date of expiry is earlier than the current date: an expiry date of      *)
(* yesterday or earlier is flagged and makes the record invalid, an expiry *)
(* date equal to the current date or to tomorrow is not flagged, whatever  *)
(* the time of day; an absent expiry date is itself a violation.           *)
(***************************************************************************)
C9_ExpiredBeforeToday ==
    Validated =>
        /\ (Present(input.data.date_of_expiry)
              /\ IsoCalendarDate(input.data.date_of_expiry[1])) =>
              /\ HasViolation("Passport has expired")
                    <=> IsoNumber(input.data.date_of_expiry[1]) < DayNumber(now.date)
              /\ HasViolation("Passport has expired") => ~ret.is_valid
        /\ ~Present(input.data.date_of_expiry) =>
              (HasViolation("Missing expiry date") /\ ~ret.is_valid)

\* the day of validation as expiry date, validated after midnight
C9_ExpiresTodayFlagged ==
    /\ Validated
    /\ input.data.date_of_expiry = Some(<<"2","0","2","5","-","0","6","-","1","5">>)
    /\ now = DT(ValidationDay, 43200)
    /\ HasViolation("Passport has expired")

(***************************************************************************)
(* C10: validate_passport adds a violation when the date of birth is       *)
(* absent, when it does not parse as YYYY-MM-DD, when it is later than the *)
(* validation time ('future'), or when it is before 1900-01-01; a present, *)
(* parseable date of birth between 1900-01-01 and the validation time adds *)
(* no date-of-birth violation.                                             *)
(***************************************************************************)
BirthTexts == {"Missing date of birth", "Invalid date of birth format",
               "Date of birth is in the future", "Date of birth is too far in the past"}

BirthViolations == {ret.errors[i].text : i \in 1..Len(ret.errors)} \cap BirthTexts

C10_BirthDateRules ==
    Validated =>
        LET b == input.data.date_of_birth
        IN IF ~Present(b) THEN BirthViolations = {"Missing date of birth"}
           ELSE IF ~IsoCalendarDate(b[1])
           THEN BirthViolations = {"Invalid date of birth format"}
           ELSE IF IsoNumber(b[1]) > DayNumber(now.date)
           THEN BirthViolations = {"Date of birth is in the future"}
           ELSE IF IsoNumber(b[1]) < 19000101
           THEN BirthViolations = {"Date of birth is too far in the past"}
           ELSE BirthViolations = {}

C10_Witness ==
    /\ Validated
    /\ input.data.date_of_birth = Some(<<"1","9","0","0","-","0","1","-","0","1">>)
    /\ BirthViolations = {}
    /\ ~ret.is_valid
    /\ HasViolation("Invalid document type")

(***************************************************************************)
(* C11: validate_passport adds a country violation for the issuing country *)
(* and, independently, for the nationality exactly when the code is        *)
(* non-empty and its upper-cased form is not in the country-code table (an *)
(* empty code adds none), the violation naming the upper-cased code; a     *)
(* document type outside {P, A, C, I, V} adds a document-type violation.   *)
(* C11_AsStated is the same with the code itself tested against the table. *)
(***************************************************************************)
UpperCased(code) ==
    [i \in 1..Len(code) |->
        IF \E k \in 1..26 : LowerChars[k] = code[i]
        THEN UpperChars[CHOOSE k \in 1..26 : LowerChars[k] = code[i]]
        ELSE code[i]]

DocumentLetters == {<<"P">>, <<"A">>, <<"C">>, <<"I">>, <<"V">>}

CountryRule(code, text, tested) ==
    IF code # <<>> /\ tested \notin VALID_COUNTRY_CODES
    THEN /\ Len(Violations(text)) = 1
         /\ Violations(text)[1].detail = UpperCased(code)
    ELSE Violations(text) = <<>>

DocumentTypeRule ==
    HasViolation("Invalid document type") <=> input.data.document_type \notin DocumentLetters

MissingFields ==
    (IF input.data.surname = <<>> THEN <<<<"surname">>>> ELSE <<>>)
    \o (IF input.data.passport_number = <<>> THEN <<<<"passport_number">>>> ELSE <<>>)

RequiredViolations == Violations("Missing required field")

OtherRulesViolated ==
    (IF input.data.document_type \notin DocumentLetters THEN 1 ELSE 0)
    + (IF FailingCritical(input.data) # <<>> THEN 1 ELSE 0)
    + (IF ~Present(input.data.date_of_birth) THEN 1 ELSE 0)
    + (IF ~Present(input.data.date_of_expiry) THEN 1 ELSE 0)

C12_RequiredFields ==
    Validated =>
        /\ Len(RequiredViolations) = Len(MissingFields)
        /\ \A i \in 1..Len(MissingFields) : RequiredViolations[i].detail = MissingFields[i]
        /\ Len(ret.errors) >= Len(MissingFields) + OtherRulesViolated
        /\ MissingFields # <<>> => ~ret.is_valid

C12_Witness ==
    /\ Validated
    /\ input.data.surname = <<>>
    /\ input.data.passport_number = <<>>
    /\ Len(RequiredViolations) = 2
    /\ HasViolation("Invalid document type")
    /\ HasViolation("Missing date of birth")
    /\ HasViolation("Critical MRZ checksum validation failed")

(***************************************************************************)
(* MRZDetector.detect_mrz.  An image is its height h, its width w and the  *)
(* bounding rectangles [x, y, w, h] of the contours cv2.findContours       *)
(* returns for its mask, in the order of that list; the region returned is *)
(* the rectangle the slice image[y:y+h, x:x+w] covers.                     *)
(***************************************************************************)
Rect(x, y, w, h) == [x |-> x, y |-> y, w |-> w, h |-> h]

RECURSIVE Pow2Floor(_)
Pow2Floor(n) == IF n < 2 THEN 1 ELSE 2 * Pow2Floor(n \div 2)

\* s > h * 0.7 in double arithmetic: 0.7 is stored as 0.7 - 0.4 / 2^53, so
\* the product of a height with 10 * s = 7 * h rounds below s when s lies
\* in the upper quarter of its binade (4 * s > 7 * 2^k, 2^k <= s < 2^(k+1))
gt_h_times_0_7(s, h) ==
    \/ 10 * s > 7 * h
    \/ 10 * s = 7 * h /\ 4 * s > 7 * Pow2Floor(s)

\* the test of lines 117-121 on the bounding rectangle of one contour
is_candidate(r, h, w) ==
    /\ r.y > h \div 2
    /\ gt_h_times_0_7(r.y + r.h, h)
    /\ 10 * r.w > 4 * w
    /\ r.h > 15 /\ 10 * r.h < 2 * h
    /\ r.w > 4 * r.h

mrz_candidates_of(image) ==
    SelectSeq(image.contours, LAMBDA r : is_candidate(r, image.h, image.w))

\* the fallback of lines 126-141: the bottom 15% of the image, over its full width
fallback_region(image) ==
    LET bottom_height == (15 * image.h) \div 100
    IN IF bottom_height > 40
       THEN Some(Rect(0, image.h - bottom_height, image.w, bottom_height))
       ELSE None

\* max(mrz_candidates, key = y): the first candidate of greatest y
lowest_candidate(candidates) ==
    LET i == CHOOSE i \in 1..Len(candidates) :
                /\ \A j \in 1..Len(candidates) : candidates[j].y <= candidates[i].y
                /\ \A j \in 1..(i - 1) : candidates[j].y < candidates[i].y
    IN candidates[i]

\* lines 153-162: the padded rectangle, clipped to the image
padded_region(r, image) ==
    LET x == Max(0, r.x - 10)
        y == Max(0, r.y - 42)
    IN Rect(x, y, Min(image.w - x, r.w + 20), Min(image.h - y, r.h + 48))

detect_mrz(image) ==
    IF image.contours = <<>> THEN None
    ELSE IF mrz_candidates_of(image) = <<>> THEN fallback_region(image)
    ELSE Some(padded_region(lowest_candidate(mrz_candidates_of(image)), image))

(***************************************************************************)
(* Detector calls: images of the heights around the fallback threshold and *)
(* of the test image (800 x 600), with up to MaxContours contours of       *)
(* 20 px height: a text line near the bottom, one above it, one at the top *)
(* of the page, a narrow one, and one touching the lower right corner.     *)
(***************************************************************************)
MaxContours == 2

ImageHeights == {200, 266, 267, 273, 274, 700, 800}

ImageWidths == {600}

ContourPool(h, w) ==
    {Rect(50, h - 30, w - 100, 20), Rect(50, h - 60, w - 100, 20),
     Rect(50, 10, w - 100, 20), Rect(50, h - 30, w \div 4, 20),
     Rect(5, h - 20, w - 5, 20)}

DetectorImages ==
    UNION {[h : {h}, w : {w}, contours : SeqsUpTo(ContourPool(h, w), MaxContours)] :
              h \in ImageHeights, w \in ImageWidths}

InitDetector ==
    /\ pc = "ready"
    /\ input \in [image : DetectorImages]
    /\ ret = None
    /\ now = NoClock
    /\ NoContainer
    /\ NoService

CallDetectMRZ ==
    /\ pc = "ready"
    /\ pc' = "detect_mrz"
    /\ ret' = detect_mrz(input.image)
    /\ UNCHANGED <<input, now, image_files, calls>>
    /\ UNCHANGED service

NextDetector == CallDetectMRZ

SpecDetector == InitDetector /\ [][NextDetector]_vars

(***************************************************************************)
(* Recognized text: parse_mrz and parse_td3_mrz applied to what a          *)
(* recognizer returns for the British example: the lines as printed, with  *)
(* blanks, blank lines and inner spaces, in lower case, or with the first  *)
(* character lost.                                                         *)
(***************************************************************************)
\* line 1 read in lower case, as a recognizer without a character whitelist may
GBR1Lower ==
    <<"p","<","g","b","r","j","e","n","n","i","n","g","s","<","<","p","a","u",
      "l","<","m","i","c","h","a","e","l","<","<","<","<","<","<","<","<","<",
      "<","<","<","<","<","<","<","<">>

\* line 1 whose first character, the document type, was not read
GBR1NoType == SliceFrom(GBR1, 1)

RecognizedPool == {GBR1, GBR2, GBR1Spaced, GBR2Spaced, GBR1Lower, GBR1NoType, Indent, <<>>}

RecognizedLines == {GBR1, GBR2, GBR1Lower, GBR1NoType, Slice(GBR2, 0, 34)}

InitRecognized ==
    /\ pc = "ready"
    /\ \/ input \in [mrz_lines : SeqsUpTo(RecognizedLines, MaxLines)]
       \/ input \in [mrz_text : {JoinLines(ls) : ls \in SeqsUpTo(RecognizedPool, MaxLines)}]
    /\ ret = None
    /\ now = NoClock
    /\ NoContainer
    /\ NoService

NextRecognized == CallParseTD3 \/ CallParseMRZ

SpecRecognized == InitRecognized /\ [][NextRecognized]_vars

(***************************************************************************)
(* C19: parse_mrz removes leading and trailing blanks, empty lines and the *)
(* spaces inside a line before it selects lines: the text decodes to what  *)
(* the same text without its spaces decodes to, no cleaned line holds a    *)
(* space or comes from a blank line, and the indented, spaced British      *)
(* example of test_parse_mrz_with_cleanup decodes to surname JENNINGS.     *)
(***************************************************************************)
Unspaced(text) == SelectSeq(text, LAMBDA c : c # " ")

NonBlankLines(text) ==
    LET lines == split(strip(text), "\n")
    IN Cardinality({i \in 1..Len(lines) :
                        \E j \in 1..Len(lines[i]) : lines[i][j] \notin Whitespace})

SpacedBritishText == JoinLines(<<<<>>, GBR1Spaced, GBR2Spaced>>)

C19_WhitespaceInsensitive ==
    pc = "parse_mrz" =>
        /\ ret = parse_mrz(Unspaced(input.mrz_text))
        /\ LET cleaned == cleaned_lines_of(input.mrz_text)
           IN /\ Len(cleaned) = NonBlankLines(input.mrz_text)
              /\ \A i \in 1..Len(cleaned) : Unspaced(cleaned[i]) = cleaned[i]
        /\ input.mrz_text = SpacedBritishText =>
              /\ ret # None
              /\ ret[1].surname = <<"J","E","N","N","I","N","G","S">>

C19_Witness ==
    /\ pc = "parse_mrz"
    /\ input.mrz_text = SpacedBritishText
    /\ Unspaced(input.mrz_text) # input.mrz_text
    /\ ret # None
    /\ ret[1].surname = <<"J","E","N","N","I","N","G","S">>
    /\ ret[1].passport_number = <<"0","1","2","3","4","5","6","7","8">>

(***************************************************************************)
(* C20: every record returned by parse_mrz or parse_td3_mrz has its string *)
(* fields document_type, issuing_country, surname, given_names,            *)
(* passport_number, nationality, sex and personal_number free of           *)
(* lower-case letters and of the filler '<'.                               *)
(***************************************************************************)
StringFields == {"document_type", "issuing_country", "surname", "given_names",
                 "passport_number", "nationality", "sex", "personal_number"}

UpperCaseNoFiller(s) ==
    \A i \in 1..Len(s) : s[i] # "<" /\ ~(\E k \in 1..26 : LowerChars[k] = s[i])

RecordReturned == pc \in {"parse_mrz", "parse_td3_mrz"} /\ ret # None

C20_UpperCaseNoFiller ==
    RecordReturned => \A f \in StringFields : UpperCaseNoFiller(ret[1][f])

\* a record decoded from text read in lower case keeps the lower case
C20_LowerCaseRecord ==
    /\ pc = "parse_mrz"
    /\ input.mrz_text = JoinLines(<<GBR1Lower, GBR2>>)
    /\ ret # None
    /\ ret[1].document_type = <<"p">>
    /\ ret[1].issuing_country = <<"g","b","r">>
    /\ ret[1].surname = <<"j","e","n","n","i","n","g","s">>

(***************************************************************************)
(* C18: detect_mrz falls back whenever no contour passes the geometric     *)
(* filter, the mask having no contour at all included: when the bottom 15% *)
(* of the image is more than 40 px high the result is that band over the   *)
(* full width, and when it is below 40 px the result is None.              *)
(***************************************************************************)
PassesFilter(r, h, w) ==
    /\ 2 * r.y > h
    /\ gt_h_times_0_7(r.y + r.h, h)
    /\ 5 * r.w > 2 * w
    /\ r.h > 15 /\ 5 * r.h < h
    /\ r.w > 4 * r.h

NoContourPasses(image) ==
    \A i \in 1..Len(image.contours) : ~PassesFilter(image.contours[i], image.h, image.w)

BottomBand(image) ==
    LET band == (15 * image.h) \div 100
    IN Rect(0, image.h - band, image.w, band)

C18_FallbackWithoutCandidate ==
    (pc = "detect_mrz" /\ NoContourPasses(input.image)) =>
        /\ 15 * input.image.h >= 4100 => ret = Some(BottomBand(input.image))
        /\ 15 * input.image.h < 4000 => ret = None

\* an image of 800 x 600 whose mask has no contour: no region, no fallback
C18_NoContourNoFallback ==
    /\ pc = "detect_mrz"
    /\ input.image.h = 800
    /\ input.image.contours = <<>>
    /\ ret = None

(***************************************************************************)
(* PassportOCR.  A call either returns a value or raises: Returned(v) and  *)
(* Raised(exc).  An image carries, besides what the detector sees of it,   *)
(* what each recognizer does on its MRZ region: PaddleOCR returns the text *)
(* contents of the lines it found or raises, pytesseract returns a text or *)
(* raises.  self is the configuration [use_paddle, debug] of the object.   *)
(***************************************************************************)
Returned(v) == [raised |-> FALSE, value |-> Some(v), exc |-> ""]

Raised(exc) == [raised |-> TRUE, value |-> None, exc |-> exc]

\* ''.join(c for c in text_content if c.isalnum() or c == '<')
filter_mrz_chars(text_content) == SelectSeq(text_content, LAMBDA c : isalnum(c) \/ c = "<")

\* lines 627-637: the filtered, non-empty lines joined by '\n'
paddle_text(lines) ==
    JoinLines(SelectSeq([i \in 1..Len(lines) |-> filter_mrz_chars(lines[i])],
                        LAMBDA line : line # <<>>))

\* pytesseract.image_to_string(thresh, config=custom_config)
image_to_string(image) ==
    IF image.tesseract.raises THEN Raised("TesseractError")
    ELSE Returned(image.tesseract.text)

extract_mrz_text(self, image) ==
    IF self.use_paddle
    THEN IF image.paddle.raises THEN image_to_string(image)
         ELSE Returned(paddle_text(image.paddle.lines))
    ELSE image_to_string(image)

\* an error text and the value formatted into it
Err(text, arg) == [text |-> text, arg |-> arg]

\* a result dictionary with success False
Failure(error, mrz_text) ==
    [success |-> FALSE, valid_passport |-> FALSE, error |-> Some(error),
     mrz_text |-> mrz_text, parsed |-> None, validation_errors |-> None]

\* the result dictionary of lines 693-703; parsed holds the keys of **parsed_data
Success(self, parsed_data, verdict, mrz_text) ==
    [success |-> TRUE, valid_passport |-> verdict.is_valid, error |-> None,
     mrz_text |-> IF self.debug THEN Some(mrz_text) ELSE None,
     parsed |-> Some(parsed_data),
     validation_errors |-> IF verdict.errors # <<>> THEN Some(verdict.errors) ELSE None]

\* process_image giving up on a record that fails validation
process_image_valid_only(self, image, today) ==
    IF detect_mrz(image) = None
    THEN Returned(Failure(Err("Could not detect MRZ region in image", ""), None))
    ELSE LET text == extract_mrz_text(self, image)
         IN IF text.raised THEN text
            ELSE LET mrz_text == text.value[1]
                     parsed_data == parse_mrz(mrz_text)
                 IN IF parsed_data = None
                    THEN Returned(Failure(Err("Could not parse MRZ text", ""), Some(mrz_text)))
                    ELSE IF ~validate_passport(parsed_data[1], today).is_valid
                    THEN Returned(Failure(Err("Invalid passport", ""), Some(mrz_text)))
                    ELSE Returned(Success(self, parsed_data[1],
                                          validate_passport(parsed_data[1], today), mrz_text))

\* an exception of extract_mrz_text is not caught here: it leaves process_image
process_image(self, image, today) ==
    IF detect_mrz(image) = None
    THEN Returned(Failure(Err("Could not detect MRZ region in image", ""), None))
    ELSE LET text == extract_mrz_text(self, image)
         IN IF text.raised THEN text
            ELSE LET mrz_text == text.value[1]
                     parsed_data == parse_mrz(mrz_text)
                 IN IF parsed_data = None
                    THEN Returned(Failure(Err("Could not parse MRZ text", ""), Some(mrz_text)))
                    ELSE Returned(Success(self, parsed_data[1],
                                          validate_passport(parsed_data[1], today), mrz_text))

(***************************************************************************)
(* PassportOCR.process_file.  A file is [exists, ext, opens, members]:     *)
(* members are the entries of a ZIP archive, the pages of a PDF, or the    *)
(* image file itself, each with its extension and what cv2.imread returns  *)
(* for it (None when it cannot be decoded); opens is false when the        *)
(* archive or document cannot be opened (zipfile or pdf2image raises).     *)
(***************************************************************************)
\* the catch-all handler of lines 797-802
error_processing_file(exc) == Failure(Err("Error processing file", exc), None)

\* a call of process_image inside the try block of process_file
guarded_process_image(self, image, today) ==
    LET result == process_image(self, image, today)
    IN IF result.raised THEN error_processing_file(result.exc) ELSE result.value[1]

\* lines 748-750: the entries found for each extension in turn
image_files_of(members) ==
    SelectSeq(members, LAMBDA e : e.ext = "jpg") \o SelectSeq(members, LAMBDA e : e.ext = "jpeg")
        \o SelectSeq(members, LAMBDA e : e.ext = "png") \o SelectSeq(members, LAMBDA e : e.ext = "bmp")

(***************************************************************************)
(* Pipeline runs: process_image on one page, and process_file on a missing *)
(* file, an image file, a ZIP archive of up to MaxEntries entries, a PDF   *)
(* or a file of another type.  The pages: the British example (expired,    *)
(* recognized with blanks by PaddleOCR), the same document with a valid    *)
(* line 2, a blank page, a page of other print, a page on which both       *)
(* recognizers raise, and a page on which only PaddleOCR raises.           *)
(***************************************************************************)
MaxEntries == 3

\* line 2 of the British example with expiry 2030-10-05 and every check digit right
GBR2Valid ==
    <<"0","1","2","3","4","5","6","7","8","4","G","B","R","8","4","1","1","0","2","8","M","3","0","1","0","0","5","7","<","<","<","<","<","<","<","<","<","<","<","<","<","<","0","6">>

TextLine == Rect(50, 770, 500, 20)

Letterhead == Rect(50, 10, 500, 20)

Page(contours, paddle, tesseract) ==
    [h |-> 800, w |-> 600, contours |-> contours, paddle |-> paddle, tesseract |-> tesseract]

PaddleReads(lines) == [raises |-> FALSE, lines |-> lines]

PaddleRaises == [raises |-> TRUE, lines |-> <<>>]

TesseractReads(text) == [raises |-> FALSE, text |-> text]

TesseractRaises == [raises |-> TRUE, text |-> <<>>]

ExpiredPage ==
    Page(<<TextLine>>, PaddleReads(<<GBR1Spaced, GBR2Spaced>>),
         TesseractReads(JoinLines(<<GBR1, GBR2>>)))

ValidPage ==
    Page(<<Letterhead>>, PaddleReads(<<GBR1, GBR2Valid>>),
         TesseractReads(JoinLines(<<GBR1, GBR2Valid>>)))

BlankPage == Page(<<>>, PaddleReads(<<>>), TesseractReads(<<>>))

NoisePage == Page(<<Letterhead, TextLine>>, PaddleReads(<<NoiseLine>>), TesseractReads(NoiseLine))

UnreadablePage == Page(<<TextLine>>, PaddleRaises, TesseractRaises)

PaddleFailsPage ==
    Page(<<TextLine>>, PaddleRaises, TesseractReads(JoinLines(<<GBR1, GBR2Valid>>)))

Pages == {ExpiredPage, ValidPage, BlankPage, NoisePage, UnreadablePage, PaddleFailsPage}

Configurations == [use_paddle : BOOLEAN, debug : BOOLEAN]

Member(ext, image) == [ext |-> ext, image |-> image]

Entries == {Member("jpg", Some(ExpiredPage)), Member("png", Some(ValidPage)),
            Member("jpg", Some(BlankPage)), Member("jpeg", Some(NoisePage)),
            Member("jpg", Some(UnreadablePage)), Member("jpg", None),
            Member("txt", None)}

File(exists, ext, opens, members) ==
    [exists |-> exists, ext |-> ext, opens |-> opens, members |-> members]

Files ==
    {File(FALSE, "jpg", FALSE, <<>>), File(TRUE, "txt", TRUE, <<>>),
     File(TRUE, "zip", FALSE, <<>>), File(TRUE, "pdf", FALSE, <<>>), File(TRUE, "pdf", TRUE, <<>>)}
    \cup {File(TRUE, "pdf", TRUE, <<Member("ppm", Some(p))>>) : p \in {ValidPage, UnreadablePage}}
    \cup {File(TRUE, e, TRUE, <<Member(e, i)>>) :
              e \in {"jpg", "tiff"}, i \in {None, Some(PaddleFailsPage), Some(BlankPage)}}
    \cup {File(TRUE, "zip", TRUE, m) : m \in SeqsUpTo(Entries, MaxEntries)}

InitPipeline ==
    /\ pc = "ready"
    /\ \/ input \in [image : Pages, self : Configurations]
       \/ input \in [file : Files, self : Configurations]
    /\ ret = None
    /\ now = DT(ValidationDay, 43200)
    /\ NoContainer
    /\ NoService

CallProcessImage ==
    /\ pc = "ready"
    /\ "image" \in DOMAIN input
    /\ pc' = "process_image"
    /\ ret' = process_image(input.self, input.image, now)
    /\ calls' = <<input.image>>
    /\ UNCHANGED <<input, now, image_files>>
    /\ UNCHANGED service

\* process_file on a missing file and on a file that is no image, archive or PDF
ProcessOtherFile ==
    /\ pc = "ready"
    /\ "file" \in DOMAIN input
    /\ ~input.file.exists \/ input.file.ext \notin {"jpg", "jpeg", "png", "bmp", "tiff", "zip", "pdf"}
    /\ pc' = "process_file"
    /\ ret' = IF ~input.file.exists THEN Returned(Failure(Err("File not found", ""), None))
              ELSE Returned(Failure(Err("Unsupported file format", input.file.ext), None))
    /\ UNCHANGED <<input, now, image_files, calls>>
    /\ UNCHANGED service

\* lines 729-738
ProcessImageFile ==
    /\ pc = "ready"
    /\ "file" \in DOMAIN input
    /\ input.file.exists
    /\ input.file.ext \in {"jpg", "jpeg", "png", "bmp", "tiff"}
    /\ pc' = "process_file"
    /\ LET image == input.file.members[1].image
       IN IF image = None
          THEN /\ ret' = Returned(Failure(Err("Could not read image file", ""), None))
               /\ calls' = calls
          ELSE /\ ret' = Returned(guarded_process_image(input.self, image[1], now))
               /\ calls' = <<image[1]>>
    /\ UNCHANGED <<input, now, image_files>>
    /\ UNCHANGED service

\* lines 773-788: the first page only
ProcessPdfFile ==
    /\ pc = "ready"
    /\ "file" \in DOMAIN input
    /\ input.file.exists
    /\ input.file.ext = "pdf"
    /\ pc' = "process_file"
    /\ IF ~input.file.opens
       THEN /\ ret' = Returned(error_processing_file("PDFPageCountError"))
            /\ calls' = calls
       ELSE IF input.file.members = <<>>
       THEN /\ ret' = Returned(Failure(Err("Could not extract images from PDF", ""), None))
            /\ calls' = calls
       ELSE /\ ret' = Returned(guarded_process_image(input.self, input.file.members[1].image[1], now))
            /\ calls' = <<input.file.members[1].image[1]>>
    /\ UNCHANGED <<input, now, image_files>>
    /\ UNCHANGED service

\* lines 740-757: the archive is extracted and its image files are listed
OpenZipFile ==
    /\ pc = "ready"
    /\ "file" \in DOMAIN input
    /\ input.file.exists
    /\ input.file.ext = "zip"
    /\ IF ~input.file.opens
       THEN /\ pc' = "process_file"
            /\ ret' = Returned(error_processing_file("BadZipFile"))
            /\ image_files' = image_files
       ELSE IF image_files_of(input.file.members) = <<>>
       THEN /\ pc' = "process_file"
            /\ ret' = Returned(Failure(Err("No image files found in ZIP", ""), None))
            /\ image_files' = image_files
       ELSE /\ pc' = "zip_loop"
            /\ ret' = ret
            /\ image_files' = image_files_of(input.file.members)
    /\ UNCHANGED <<input, now, calls>>
    /\ UNCHANGED service

\* lines 760-765: one iteration of the loop; image_files is what is left to iterate
TryZipImage ==
    /\ pc = "zip_loop"
    /\ image_files # <<>>
    /\ LET image == Head(image_files).image
       IN IF image = None
          THEN /\ pc' = pc
               /\ ret' = ret
               /\ calls' = calls
               /\ image_files' = Tail(image_files)
          ELSE LET result == process_image(input.self, image[1], now)
               IN /\ calls' = Append(calls, image[1])
                  /\ IF result.raised
                     THEN /\ pc' = "process_file"
                          /\ ret' = Returned(error_processing_file(result.exc))
                          /\ image_files' = <<>>
                     ELSE IF result.value[1].success
                     THEN /\ pc' = "process_file"
                          /\ ret' = result
                          /\ image_files' = <<>>
                     ELSE /\ pc' = pc
                          /\ ret' = ret
                          /\ image_files' = Tail(image_files)
    /\ UNCHANGED <<input, now>>
    /\ UNCHANGED service

\* lines 767-771
ZipExhausted ==
    /\ pc = "zip_loop"
    /\ image_files = <<>>
    /\ pc' = "process_file"
    /\ ret' = Returned(Failure(Err("No valid passport found in ZIP", ""), None))
    /\ UNCHANGED <<input, now, image_files, calls>>
    /\ UNCHANGED service

NextPipeline ==
    \/ CallProcessImage
    \/ ProcessOtherFile
    \/ ProcessImageFile
    \/ ProcessPdfFile
    \/ OpenZipFile
    \/ TryZipImage
    \/ ZipExhausted

SpecPipeline == InitPipeline /\ [][NextPipeline]_vars

(***************************************************************************)
(* C14: in process_image a validation failure never short-circuits: when   *)
(* the detector returns a region and the decoder returns a record for the  *)
(* recognized text, the result has success = True, carries the decoded     *)
(* record, has valid_passport equal to the validator's verdict, and has    *)
(* validation_errors exactly when the violation list is non-empty, holding *)
(* that list.                                                              *)
(***************************************************************************)
ImageProcessed == pc = "process_image"

RegionFound == detect_mrz(input.image) # None

Recognized == extract_mrz_text(input.self, input.image)

Decoded == IF Recognized.raised THEN None ELSE parse_mrz(Recognized.value[1])

Verdict == validate_passport(Decoded[1], now)

C14_ValidationNeverShortCircuits ==
    (ImageProcessed /\ RegionFound /\ Decoded # None) =>
        /\ ~ret.raised
        /\ ret.value[1].success
        /\ ret.value[1].error = None
        /\ ret.value[1].parsed = Decoded
        /\ ret.value[1].valid_passport = Verdict.is_valid
        /\ ret.value[1].validation_errors # None <=> Verdict.errors # <<>>
        /\ Verdict.errors # <<>> => ret.value[1].validation_errors = Some(Verdict.errors)

C14_Witness ==
    /\ ImageProcessed
    /\ input.image = ExpiredPage
    /\ input.self.use_paddle
    /\ ~ret.raised
    /\ ret.value[1].success
    /\ ~ret.value[1].valid_passport
    /\ ret.value[1].parsed[1].surname = <<"J","E","N","N","I","N","G","S">>
    /\ Len(ret.value[1].validation_errors[1]) = 2

(***************************************************************************)
(* C15: process_image always returns a result and lets no stage error      *)
(* escape as an exception: a missing region, a recognizer error and an     *)
(* undecodable text each give a result with success = False that carries   *)
(* an error text.                                                          *)
(***************************************************************************)
C15_NoStageErrorEscapes ==
    ImageProcessed =>
        /\ ~ret.raised
        /\ (~RegionFound \/ Recognized.raised \/ Decoded = None) =>
              /\ ~ret.value[1].success
              /\ ret.value[1].error # None

\* both recognizers raise on a page whose region was found: the exception leaves process_image
C15_RecognizerErrorEscapes ==
    /\ ImageProcessed
    /\ input.image = UnreadablePage
    /\ RegionFound
    /\ ret.raised
    /\ ret.exc = "TesseractError"
    /\ ret.value = None

(***************************************************************************)
(* C16: for a ZIP archive with image files, process_file applies           *)
(* process_image to the readable candidates in the order of the list and   *)
(* returns the result of the first candidate whose result has success =    *)
(* True, whatever its valid_passport, having processed no later candidate; *)
(* when no candidate succeeds it returns the failure 'No valid passport    *)
(* found in ZIP' after processing all of them.                             *)
(***************************************************************************)
ZipProcessed ==
    /\ pc = "process_file"
    /\ "file" \in DOMAIN input
    /\ input.file.exists /\ input.file.ext = "zip" /\ input.file.opens
    /\ image_files_of(input.file.members) # <<>>

Candidates ==
    LET readable == SelectSeq(image_files_of(input.file.members), LAMBDA e : e.image # None)
    IN [i \in 1..Len(readable) |-> readable[i].image[1]]

Succeeds(image) ==
    LET result == process_image(input.self, image, now)
    IN ~result.raised /\ result.value[1].success

FirstSuccess ==
    CHOOSE k \in 1..Len(Candidates) :
        Succeeds(Candidates[k]) /\ \A j \in 1..(k - 1) : ~Succeeds(Candidates[j])

C16_FirstSuccessfulCandidate ==
    ZipProcessed =>
        IF \E k \in 1..Len(Candidates) : Succeeds(Candidates[k])
        THEN /\ ret = process_image(input.self, Candidates[FirstSuccess], now)
             /\ calls = SubSeq(Candidates, 1, FirstSuccess)
        ELSE /\ ret = Returned(Failure(Err("No valid passport found in ZIP", ""), None))
             /\ calls = Candidates

\* the recognizers raise on the first candidate: the expired passport after it is not returned
C16_SuccessNotReturned ==
    /\ ZipProcessed
    /\ Candidates = <<UnreadablePage, ExpiredPage>>
    /\ Succeeds(ExpiredPage)
    /\ ~ret.value[1].success
    /\ ret.value[1].error = Some(Err("Error processing file", "TesseractError"))

(***************************************************************************)
(* C17: in a ZIP archive a terminal failure of one candidate (no region,   *)
(* recognizer error, undecodable text) only advances to the next           *)
(* candidate: process_file returns a failure only after process_image was  *)
(* called on every readable candidate, none of which would succeed.        *)
(***************************************************************************)
C17_FailureOnlyAfterAllCandidates ==
    (ZipProcessed /\ ~ret.value[1].success) =>
        /\ calls = Candidates
        /\ \A k \in 1..Len(Candidates) : ~Succeeds(Candidates[k])

\* the valid passport behind a candidate on which the recognizers raise is never processed
C17_LaterCandidateNotReached ==
    /\ ZipProcessed
    /\ Candidates = <<UnreadablePage, ValidPage>>
    /\ calls = <<UnreadablePage>>
    /\ Succeeds(ValidPage)
    /\ ~ret.value[1].success

(***************************************************************************)
(* Recognizer calls: extract_mrz_text on a region for which PaddleOCR      *)
(* returns up to MaxLines lines (as printed, with blanks, in lower case,   *)
(* with punctuation, blank) or raises, and pytesseract returns the British *)
(* example or raises.                                                      *)
(***************************************************************************)
PaddleLinePool == {GBR1, GBR2, GBR1Spaced, GBR1Lower, NoiseLine, Indent, <<>>}

RecognizerImages ==
    {Page(<<TextLine>>, p, t) :
        p \in {PaddleRaises} \cup {PaddleReads(ls) : ls \in SeqsUpTo(PaddleLinePool, MaxLines)},
        t \in {TesseractRaises, TesseractReads(JoinLines(<<GBR1, GBR2>>))}}

InitRecognizer ==
    /\ pc = "ready"
    /\ input \in [image : RecognizerImages, self : Configurations]
    /\ ret = None
    /\ now = NoClock
    /\ NoContainer
    /\ NoService

CallExtractMRZText ==
    /\ pc = "ready"
    /\ pc' = "extract_mrz_text"
    /\ ret' = extract_mrz_text(input.self, input.image)
    /\ UNCHANGED <<input, now, image_files, calls>>
    /\ UNCHANGED service

NextRecognizer == CallExtractMRZText

SpecRecognizer == InitRecognizer /\ [][NextRecognizer]_vars

(***************************************************************************)
(* C21: the text extract_mrz_text returns contains, apart from line        *)
(* breaks, only characters of the MRZ alphabet A-Z, 0-9 and '<'; on the    *)
(* PaddleOCR path it is the recognized lines with every other character    *)
(* dropped and none substituted.                                           *)
(***************************************************************************)
InMRZAlphabet(c) ==
    \/ c = "<"
    \/ \E k \in 1..26 : UpperChars[k] = c
    \/ \E k \in 1..10 : DigitChars[k] = c

OnlyMRZAlphabet(line) == SelectSeq(line, InMRZAlphabet)

TextExtracted == pc = "extract_mrz_text" /\ ~ret.raised

PaddlePath == input.self.use_paddle /\ ~input.image.paddle.raises

C21_OnlyMRZAlphabet ==
    TextExtracted =>
        /\ \A i \in 1..Len(ret.value[1]) :
              ret.value[1][i] = "\n" \/ InMRZAlphabet(ret.value[1][i])
        /\ PaddlePath =>
              ret.value[1] =
                  JoinLines(SelectSeq([i \in 1..Len(input.image.paddle.lines) |->
                                          OnlyMRZAlphabet(input.image.paddle.lines[i])],
                                      LAMBDA line : line # <<>>))

\* a line PaddleOCR read in lower case is handed on in lower case
C21_LowerCaseKept ==
    /\ TextExtracted
    /\ PaddlePath
    /\ input.image.paddle.lines = <<GBR1Lower, GBR2>>
    /\ ret.value[1] = JoinLines(<<GBR1Lower, GBR2>>)

(***************************************************************************)
(* Line selection: parse_mrz on a text of two lines, a candidate line      *)
(* followed by line 2 of the British example.  The candidate is a first    *)
(* character, then fillers, then full stops, then the letter A up to its   *)
(* length: lengths around 35 and 50, full stops around a tenth of the      *)
(* length, fillers around 5.  Line 2 is always selected, so a record is    *)
(* returned exactly when the candidate is selected too.                    *)
(***************************************************************************)
Repeat(c, n) == [i \in 1..n |-> c]

CandidateLine(first, fillers, stops, length) ==
    <<first>> \o Repeat("<", fillers) \o Repeat(".", stops)
        \o Repeat("A", length - 1 - fillers - stops)

CandidateLengths == {34, 35, 40, 50, 51}

CandidateStops == {0, 3, 4, 5, 6}

CandidateFillers == {0, 1, 4, 5}

CandidateLines ==
    {CandidateLine(f, m, k, n) :
        f \in {"P", "X"}, m \in CandidateFillers, k \in CandidateStops, n \in CandidateLengths}

InitSelection ==
    /\ pc = "ready"
    /\ input \in [mrz_text : {JoinLines(<<line, GBR2>>) : line \in CandidateLines}]
    /\ ret = None
    /\ now = NoClock
    /\ NoContainer
    /\ NoService

NextSelection == CallParseMRZ

SpecSelection == InitSelection /\ [][NextSelection]_vars

(***************************************************************************)
(* C23: parse_mrz selects a normalized line if and only if its length is   *)
(* between 35 and 50 inclusive, at least 90% of its characters are         *)
(* alphanumeric or '<' (exactly 90% included), it contains '<', and it     *)
(* starts with one of P, A, C, I, V or contains at least 5 '<'.            *)
(***************************************************************************)
FirstLine == split(input.mrz_text, "\n")[1]

AlnumOrFiller(line) ==
    Cardinality({i \in 1..Len(line) :
        \/ line[i] = "<"
        \/ \E k \in 1..26 : UpperChars[k] = line[i] \/ LowerChars[k] = line[i]
        \/ \E k \in 1..10 : DigitChars[k] = line[i]})

Fillers(line) == Cardinality({i \in 1..Len(line) : line[i] = "<"})

Selectable(line, pure) ==
    /\ 35 <= Len(line) /\ Len(line) <= 50
    /\ pure
    /\ Fillers(line) >= 1
    /\ line[1] \in {"P", "A", "C", "I", "V"} \/ Fillers(line) >= 5

LineSelected == ret # None

C23_SelectedIffQualifies ==
    pc = "parse_mrz" =>
        (LineSelected <=>
            Selectable(FirstLine, 10 * AlnumOrFiller(FirstLine) >= 9 * Len(FirstLine)))

\* 36 of 40 characters are alphanumeric or '<': the line is not selected
C23_ExactlyNinetyPercentRejected ==
    /\ pc = "parse_mrz"
    /\ FirstLine = CandidateLine("P", 1, 4, 40)
    /\ 10 * AlnumOrFiller(FirstLine) = 9 * Len(FirstLine)
    /\ ~LineSelected

(***************************************************************************)
(* Decoding and validating a pair of lines: parse_td3_mrz on a line 1 and  *)
(* a line 2, then validate_passport on the record, as process_image        *)
(* chains them.  Line 1 is one of: the two examples, a name that fills     *)
(* all 39 columns and ends in X, a name with two '<<', a line of 48 and    *)
(* one of 38 characters, a German line (country 'D<<') and a country code  *)
(* read with 1 for I.  Line 2 is one of: the examples, the German line 2   *)
(* (no personal number, '<' in column 42), lines with one column changed,  *)
(* a line cut after column 35 and one whose columns 28-42 were read as K.  *)
(***************************************************************************)
FullName1 ==
    <<"P","<","U","T","O","V","A","N","D","E","R","M","E","U","L","E","N","B",
      "R","O","E","K","<","<","A","L","E","X","A","N","D","E","R","<","M","A",
      "R","I","A","<","A","L","E","X">>

TwoSeparators1 ==
    <<"P","<","G","B","R","J","E","N","N","I","N","G","S","<","<","P","A","U",
      "L","<","<","M","I","C","H","A","E","L","<","<","<","<","<","<","<","<",
      "<","<","<","<","<","<","<","<">>

DEU1 ==
    <<"P","<","D","<","<","M","U","S","T","E","R","M","A","N","N","<","<","E",
      "R","I","K","A","<","<","<","<","<","<","<","<","<","<","<","<","<","<",
      "<","<","<","<","<","<","<","<">>

IND1 ==
    <<"P","<","1","N","D","K","U","M","A","R","<","<","R","A","J","<","<","<",
      "<","<","<","<","<","<","<","<","<","<","<","<","<","<","<","<","<","<",
      "<","<","<","<","<","<","<","<">>

DEU2 ==
    <<"C","0","1","X","0","0","T","4","7","8","D","<","<","6","4","0","8","1",
      "2","5","F","2","7","0","2","2","8","3","<","<","<","<","<","<","<","<",
      "<","<","<","<","<","<","<","4">>

\* line with column col (from 0) replaced by the character c
WithColumn(line, col, c) == [line EXCEPT ![col + 1] = c]

Line1Pool == {GBR1, UTO1, FullName1, TwoSeparators1, DEU1, IND1,
              GBR1 \o <<"<","<","7","7">>, Slice(GBR1, 0, 38)}

Line2Pool == {GBR2, GBR2Valid, UTO2, UTO2BadBirth, DEU2,
              WithColumn(GBR2Valid, 20, "<"), WithColumn(GBR2Valid, 42, "5"),
              WithColumn(UTO2, 42, "7"), WithColumn(UTO2, 43, "<"),
              WithColumn(UTO2, 9, "7"), Slice(UTO2, 0, 36),
              Slice(GBR2Valid, 0, 28) \o Repeat("K", 15)}

InitColumns ==
    /\ pc = "ready"
    /\ input \in [mrz_lines : {<<line1, line2>> : line1 \in Line1Pool, line2 \in Line2Pool}]
    /\ ret = None
    /\ now = DT(ValidationDay, 43200)
    /\ NoContainer
    /\ NoService

\* validate_passport on the record parse_td3_mrz returned
ValidateParsed ==
    /\ pc = "parse_td3_mrz"
    /\ ret # None
    /\ pc' = "validate_passport"
    /\ ret' = Some([parsed |-> ret[1], validation |-> validate_passport(ret[1], now)])
    /\ UNCHANGED <<input, now, image_files, calls>>
    /\ UNCHANGED service

NextColumns == CallParseTD3 \/ ValidateParsed

SpecColumns == InitColumns /\ [][NextColumns]_vars

(***************************************************************************)
(* C24: parse_td3_mrz pads or truncates each accepted line to exactly 44   *)
(* columns with '<' and takes every field from its fixed columns: line 1   *)
(* column 0 document type, 2-4 issuing country, 5-43 the name field split  *)
(* on the first '<<' into surname and given names (single '<' become       *)
(* spaces, trimmed); line 2 columns 0-8 passport number (at most 9         *)
(* characters), 10-12 nationality, 13-18 date of birth, 20 sex, 21-26      *)
(* expiry, 28-41 personal number, the check digits in 9, 19, 27, 42, 43.   *)
(***************************************************************************)
\* the accepted line, trimmed, cut or padded with '<' to 44 columns
Padded44(line) ==
    LET s == strip(line) IN [i \in 1..44 |-> IF i <= Len(s) THEN s[i] ELSE "<"]

\* columns a..b of a padded line, counted from 0
Columns(line, a, b) == SubSeq(line, a + 1, b + 1)

IsNotFiller(c) == c # "<"

WithoutFillers(s) == SelectSeq(s, IsNotFiller)

\* 1 read for I at either end of a three-letter code
CorrectedCode(code) ==
    IF Len(code) # 3 THEN code
    ELSE [i \in 1..3 |-> IF i \in {1, 3} /\ code[i] = "1" THEN "I" ELSE code[i]]

SpacesForFillers(s) == strip([i \in 1..Len(s) |-> IF s[i] = "<" THEN " " ELSE s[i]])

Separators(name) == {i \in 1..(Len(name) - 1) : name[i] = "<" /\ name[i + 1] = "<"}

FirstSeparator(name) == CHOOSE i \in Separators(name) : \A j \in Separators(name) : i <= j

SurnameOf(name) ==
    IF Separators(name) = {} THEN SpacesForFillers(name)
    ELSE SpacesForFillers(SubSeq(name, 1, FirstSeparator(name) - 1))

GivenNamesOf(name) ==
    IF Separators(name) = {} THEN <<>>
    ELSE SpacesForFillers(SubSeq(name, FirstSeparator(name) + 2, Len(name)))

PairDecoded == pc = "parse_td3_mrz" /\ ret # None

Line1Columns(record, line1) ==
    /\ record.document_type = Columns(line1, 0, 0)
    /\ record.issuing_country = CorrectedCode(WithoutFillers(Columns(line1, 2, 4)))

NameColumns(record, line1) ==
    /\ record.surname = SurnameOf(Columns(line1, 5, 43))
    /\ record.given_names = GivenNamesOf(Columns(line1, 5, 43))

Line2Columns(record, line2) ==
    /\ record.passport_number = WithoutFillers(Columns(line2, 0, 8))
    /\ Len(record.passport_number) <= 9
    /\ record.nationality = CorrectedCode(WithoutFillers(Columns(line2, 10, 12)))
    /\ record.date_of_birth = parse_date(Columns(line2, 13, 18))
    /\ record.date_of_expiry = parse_date(Columns(line2, 21, 26))
    /\ record.personal_number = WithoutFillers(Columns(line2, 28, 41))

SexColumn(record, line2) == record.sex = Columns(line2, 20, 20)

C24_FixedColumns ==
    PairDecoded =>
        /\ Line1Columns(ret[1], Padded44(input.mrz_lines[1]))
        /\ NameColumns(ret[1], Padded44(input.mrz_lines[1]))
        /\ Line2Columns(ret[1], Padded44(input.mrz_lines[2]))
        /\ SexColumn(ret[1], Padded44(input.mrz_lines[2]))

\* the name fills columns 5-43 and ends in X: the X is not in the record
C24_LastLetterDropped ==
    /\ PairDecoded
    /\ input.mrz_lines[1] = FullName1
    /\ GivenNamesOf(Columns(Padded44(FullName1), 5, 43))
           = <<"A","L","E","X","A","N","D","E","R"," ","M","A","R","I","A"," ","A","L","E","X">>
    /\ ret[1].given_names
           = <<"A","L","E","X","A","N","D","E","R"," ","M","A","R","I","A"," ","A","L","E">>

(***************************************************************************)
(* C25: the composite check recorded by parse_td3_mrz is true exactly      *)
(* when column 43 of the padded line 2 is a digit equal to the ICAO check  *)
(* digit of the concatenation of columns 0-9, 13-19, 21-27 and 28-42 of    *)
(* that line, in this order.                                               *)
(***************************************************************************)
CompositeColumns(line2) ==
    Columns(line2, 0, 9) \o Columns(line2, 13, 19)
        \o Columns(line2, 21, 27) \o Columns(line2, 28, 42)

CompositeHolds(line2) ==
    /\ InTable(line2[44], DigitChars)
    /\ IcaoValue(line2[44]) = IcaoSum(CompositeColumns(line2)) % 10

C25_CompositeCheck ==
    PairDecoded =>
        (ret[1].check_digits.composite <=> CompositeHolds(Padded44(input.mrz_lines[2])))

\* the specimen line 2, composite digit 0 over 39 characters: recorded true
C25_Witness ==
    /\ PairDecoded
    /\ input.mrz_lines[2] = UTO2
    /\ Len(CompositeColumns(Padded44(UTO2))) = 39
    /\ ret[1].check_digits.composite

(***************************************************************************)
(* C26 as stated: valid_mrz_checksum is true if and only if every entry    *)
(* of the check map is true (passport number, date of birth, expiry,       *)
(* personal number, composite), each entry being the comparison of the     *)
(* field's columns with its check-digit column; the flag is never true     *)
(* while the composite or a field-level check is false.                    *)
(***************************************************************************)
CheckNames == {"passport_number", "date_of_birth", "date_of_expiry", "personal_number", "composite"}

\* the check-digit column holds the ICAO check digit of the field's columns
Compared(line2, a, b, col) ==
    /\ InTable(line2[col + 1], DigitChars)
    /\ IcaoValue(line2[col + 1]) = IcaoSum(Columns(line2, a, b)) % 10

FlagIsConjunction(record) ==
    /\ DOMAIN record.check_digits = CheckNames
    /\ record.valid_mrz_checksum <=> \A k \in CheckNames : record.check_digits[k]
    /\ record.valid_mrz_checksum =>
           /\ record.check_digits.composite
           /\ record.check_digits.passport_number /\ record.check_digits.date_of_birth
           /\ record.check_digits.date_of_expiry /\ record.check_digits.personal_number

FieldEntries(record, line2) ==
    /\ record.check_digits.passport_number <=> Compared(line2, 0, 8, 9)
    /\ record.check_digits.date_of_birth <=> Compared(line2, 13, 18, 19)
    /\ record.check_digits.date_of_expiry <=> Compared(line2, 21, 26, 27)
    /\ record.check_digits.composite <=> CompositeHolds(line2)

C26_AsStated ==
    PairDecoded =>
        /\ FlagIsConjunction(ret[1])
        /\ FieldEntries(ret[1], Padded44(input.mrz_lines[2]))
        /\ ret[1].check_digits.personal_number
               <=> Compared(Padded44(input.mrz_lines[2]), 28, 41, 42)

(***************************************************************************)
(* C26: valid_mrz_checksum is true if and only if every entry of the       *)
(* check map is true; the passport-number, date-of-birth, expiry and       *)
(* composite entries are the comparison of the field's columns with its    *)
(* check-digit column; the personal-number entry is that comparison when   *)
(* the decoded personal number is not empty and true when it is empty,     *)
(* whatever column 42 holds; the flag is never true while an entry is      *)
(* false.                                                                  *)
(***************************************************************************)
C26_AggregateFlag ==
    PairDecoded =>
        /\ FlagIsConjunction(ret[1])
        /\ FieldEntries(ret[1], Padded44(input.mrz_lines[2]))
        /\ ret[1].check_digits.personal_number
               <=> \/ ret[1].personal_number = <<>>
                   \/ Compared(Padded44(input.mrz_lines[2]), 28, 41, 42)

\* the German line 2: no personal number, '<' in column 42, the flag is true
C26_Witness ==
    /\ PairDecoded
    /\ input.mrz_lines[2] = DEU2
    /\ ret[1].personal_number = <<>>
    /\ ~Compared(Padded44(DEU2), 28, 41, 42)
    /\ ret[1].check_digits.personal_number
    /\ ret[1].valid_mrz_checksum

(***************************************************************************)
(* C29: no issuing-country or nationality value produced by the decoder    *)
(* contains '<', so the table entry 'D<<' is never matched by a decoded    *)
(* record: for every pair whose country columns read 'D<<' the decoder     *)
(* yields the code 'D', and validate_passport on that record reports an    *)
(* invalid country code.                                                   *)
(***************************************************************************)
GermanColumns == <<"D","<","<">>

HasFiller(s) == \E i \in 1..Len(s) : s[i] = "<"

Reported(errors, text, code) == \E i \in 1..Len(errors) : errors[i] = Msg(text, code)

DecodedCodes(record, line1, line2) ==
    /\ ~HasFiller(record.issuing_country)
    /\ ~HasFiller(record.nationality)
    /\ Columns(line1, 2, 4) = GermanColumns => record.issuing_country = <<"D">>
    /\ Columns(line2, 10, 12) = GermanColumns => record.nationality = <<"D">>

GermanCodesReported(errors, line1, line2) ==
    /\ Columns(line1, 2, 4) = GermanColumns
           => Reported(errors, "Invalid issuing country code", <<"D">>)
    /\ Columns(line2, 10, 12) = GermanColumns
           => Reported(errors, "Invalid nationality code", <<"D">>)

FilterHeights == {200, 700}

FilterWidths == {600}

BoxHeights == {15, 16, 39, 40, 60}

BoxWidths == {239, 240, 241}

BoxTops(H, h) == {H \div 2, H \div 2 + 1, (7 * H) \div 10 - h, (7 * H) \div 10 - h + 1}

FilterImages ==
    UNION {UNION {{[h |-> H, w |-> W, contours |-> <<Rect(50, y, bw, bh)>>] :
                      y \in BoxTops(H, bh), bw \in BoxWidths, W \in FilterWidths} :
                  bh \in BoxHeights} :
              H \in FilterHeights}

InitFilter ==
    /\ pc = "ready"
    /\ input \in [image : FilterImages]
    /\ ret = None
    /\ now = NoClock
    /\ NoContainer
    /\ NoService

NextFilter == CallDetectMRZ

SpecFilter == InitFilter /\ [][NextFilter]_vars

(***************************************************************************)
(* C27: detect_mrz keeps a contour's bounding box (x, y, w, h) of an       *)
(* H x W image as a candidate if and only if the box lies in the bottom    *)
(* half of the image, its bottom edge y+h reaches into the final 30% of    *)
(* the height, w is at least 40% of W, h is between 15 px and 20% of H,    *)
(* and w/h exceeds 4.  A box exactly on a limit the sentence leaves open   *)
(* (the middle, 70% of the height, 15 px, 20% of H) may go either way.     *)
(***************************************************************************)
TheBox == input.image.contours[1]

\* the box was a candidate: the region returned is the box with its margins
BoxKept == ret = Some(padded_region(TheBox, input.image))

\* every condition met, the open limits read as excluded
MeetsAll(r, H, W, minimum_width) ==
    /\ 2 * r.y > H
    /\ 10 * (r.y + r.h) > 7 * H
    /\ minimum_width
    /\ r.h > 15 /\ 10 * r.h < 2 * H
    /\ r.w > 4 * r.h

\* no condition missed, the open limits read as included
MissesNone(r, H, W) ==
    /\ 2 * r.y >= H
    /\ 10 * (r.y + r.h) >= 7 * H
    /\ 10 * r.w >= 4 * W
    /\ r.h >= 15 /\ 10 * r.h <= 2 * H
    /\ r.w > 4 * r.h

C27_CandidateFilter ==
    pc = "detect_mrz" =>
        /\ MeetsAll(TheBox, input.image.h, input.image.w,
                    10 * TheBox.w >= 4 * input.image.w) => BoxKept
        /\ BoxKept => MissesNone(TheBox, input.image.h, input.image.w)

\* a box 240 px wide in an image 600 px wide, every other condition met: not kept
C27_ExactlyFortyPercentRejected ==
    /\ pc = "detect_mrz"
    /\ TheBox.w = 240 /\ input.image.w = 600
    /\ MeetsAll(TheBox, input.image.h, input.image.w, 10 * TheBox.w = 4 * input.image.w)
    /\ ~BoxKept

(***************************************************************************)
(* The region returned for a candidate: detect_mrz on images with up to    *)
(* MaxContours contours.  In the 800 x 600 image: the text line, a line    *)
(* above it, a line 5 px from the left edge, a line in the lower right     *)
(* corner, a line over the full width and a letterhead at the top.  In an  *)
(* image 81 px high: lines 41 px from the top, one of them 5 px from the   *)
(* left edge, and a line at the top.                                       *)
(***************************************************************************)
RegionHeights == {81, 800}

RegionWidths == {600}

BoxPool(H, W) ==
    IF H = 800
    THEN {TextLine, Rect(50, 740, 500, 20), Rect(5, 770, 500, 20),
          Rect(95, 780, 505, 20), Rect(0, 775, 600, 20), Letterhead}
    ELSE {Rect(50, 41, 300, 16), Rect(5, 41, 300, 16), Rect(50, 2, 300, 16)}

RegionImages ==
    UNION {[h : {H}, w : {W}, contours : SeqsUpTo(BoxPool(H, W), MaxContours)] :
              H \in RegionHeights, W \in RegionWidths}

InitRegion ==
    /\ pc = "ready"
    /\ input \in [image : RegionImages]
    /\ ret = None
    /\ now = NoClock
    /\ NoContainer
    /\ NoService

NextRegion == CallDetectMRZ

SpecRegion == InitRegion /\ [][NextRegion]_vars

(***************************************************************************)
(* C28: when at least one candidate passes the filter, detect_mrz selects  *)
(* the candidate of greatest top offset y and returns its box widened by   *)
(* 10 px on each side, extended 42 px upward and 6 px downward and clipped *)
(* to the image; the rectangle returned lies inside the image, is not      *)
(* empty and contains the box of the selected candidate.                   *)
(***************************************************************************)
CandidateBoxes(image) ==
    {i \in 1..Len(image.contours) : PassesFilter(image.contours[i], image.h, image.w)}

Lowest(image) ==
    {i \in CandidateBoxes(image) :
        \A j \in CandidateBoxes(image) : image.contours[j].y <= image.contours[i].y}

InsideImage(r, image) ==
    /\ 0 <= r.x /\ r.x + r.w <= image.w
    /\ 0 <= r.y /\ r.y + r.h <= image.h

NonEmpty(r) == r.w > 0 /\ r.h > 0

Contains(r, box) ==
    /\ r.x <= box.x /\ box.x + box.w <= r.x + r.w
    /\ r.y <= box.y /\ box.y + box.h <= r.y + r.h

\* box with its margins, cut at the four edges of the image
WidenedAndClipped(box, image) ==
    LET left == Max(0, box.x - 10)
        top == Max(0, box.y - 42)
        right == Min(image.w, box.x + box.w + 10)
        bottom == Min(image.h, box.y + box.h + 6)
    IN Rect(left, top, right - left, bottom - top)

RegionInvariants(image, region) ==
    /\ region # None
    /\ InsideImage(region[1], image)
    /\ NonEmpty(region[1])
    /\ \E i \in Lowest(image) : Contains(region[1], image.contours[i])

CandidateFound == pc = "detect_mrz" /\ CandidateBoxes(input.image) # {}

C28_PaddedRegion ==
    CandidateFound =>
        /\ RegionInvariants(input.image, ret)
        /\ \E i \in Lowest(input.image) :
               ret = Some(WidenedAndClipped(input.image.contours[i], input.image))

\* a line 5 px from the left edge, 500 px wide: the region ends 15 px right of it
C28_WiderOnTheRight ==
    /\ CandidateFound
    /\ input.image.contours = <<Rect(5, 770, 500, 20)>>
    /\ WidenedAndClipped(Rect(5, 770, 500, 20), input.image) = Rect(0, 728, 515, 68)
    /\ ret = Some(Rect(0, 728, 520, 68))

(***************************************************************************)
(* The web service of app_fastapi.py.  One PassportOCR object (ocr) and    *)
(* one Redis client are created when the module is loaded and shared by    *)
(* all requests.  extract_passport answers a request and, when it accepts  *)
(* the upload, stores it in a temporary file and adds process_passport_    *)
(* async as a background task; the task is a plain function, which         *)
(* Starlette runs in a worker thread after the response, so the jobs of    *)
(* different requests run concurrently.  jobs[i] is the position of the    *)
(* job of request i, what process_file returned or raised, and whether    *)
(* the temporary file was removed; tmp_files is the set of requests whose  *)
(* temporary file exists; published[i] lists the calls of                  *)
(* publish_ocr_result for request i.                                       *)
(*                                                                         *)
(* A request carries whether its three identifiers are present, the file   *)
(* name of the upload, what cv2.imread returns for the stored upload       *)
(* (None when it cannot be decoded), and whether file_path.exists(), the   *)
(* one statement of process_file outside its try block, raises.            *)
(***************************************************************************)
MaxRequests == 2

Request(identified, filename, image, faulty) ==
    [identified |-> identified, filename |-> filename, image |-> image, faulty |-> faulty]

RequestPool ==
    {Request(TRUE, Some(<<"p",".","j","p","g">>), Some(ValidPage), FALSE),
     Request(TRUE, Some(<<"s","c","a","n",".","1",".","P","N","G">>), Some(BlankPage), FALSE),
     Request(TRUE, Some(<<"p",".","p","d","f">>), None, FALSE),
     Request(TRUE, Some(<<"p",".","j","p","e","g">>), Some(ExpiredPage), TRUE),
     Request(TRUE, Some(<<"p",".","t","i","f","f">>), Some(ValidPage), FALSE),
     Request(TRUE, None, Some(ValidPage), FALSE),
     Request(FALSE, Some(<<"p",".","j","p","g">>), Some(ValidPage), FALSE)}

allowed_extensions ==
    {<<"j","p","g">>, <<"j","p","e","g">>, <<"p","n","g">>, <<"p","d","f">>, <<"z","i","p">>}

\* file.filename.split('.')[-1].lower() if file.filename else ''
file_ext_of(filename) ==
    IF filename = None \/ filename = Some(<<>>) THEN <<>>
    ELSE LET parts == split(filename[1], ".") IN str_lower(parts[Len(parts)])

\* the two HTTPException(400) of extract_passport
rejected(request) ==
    \/ ~request.identified
    \/ file_ext_of(request.filename) \notin allowed_extensions

\* process_file on the temporary file of an accepted image or PDF upload;
\* a PDF upload of the pool is one pdf2image cannot open
process_file(self, request, today) ==
    IF request.faulty THEN Raised("OSError")
    ELSE IF file_ext_of(request.filename) = <<"p","d","f">>
    THEN Returned(error_processing_file("PDFPageCountError"))
    ELSE IF request.image = None
    THEN Returned(Failure(Err("Could not read image file", ""), None))
    ELSE Returned(guarded_process_image(self, request.image[1], today))

\* process_file gets as far as self.paddle_ocr.ocr(...) in extract_mrz_text
calls_paddle_ocr(self, request) ==
    /\ ~request.faulty
    /\ file_ext_of(request.filename) # <<"p","d","f">>
    /\ request.image # None
    /\ detect_mrz(request.image[1]) # None
    /\ self.use_paddle

\* the payload reporting success whenever process_file returned
payload_of_returned_is_success(outcome) ==
    IF outcome.raised
    THEN [status |-> "error", error |-> Some(Err("Server error", outcome.exc)), raw_result |-> None]
    ELSE [status |-> "success", error |-> None, raw_result |-> outcome.value]

\* response_data / error_result of process_passport_async
payload_of(outcome) ==
    IF outcome.raised
    THEN [status |-> "error", error |-> Some(Err("Server error", outcome.exc)), raw_result |-> None]
    ELSE IF outcome.value[1].success
    THEN [status |-> "success", error |-> None, raw_result |-> outcome.value]
    ELSE [status |-> "error", error |-> outcome.value[1].error, raw_result |-> outcome.value]

\* removal is what the finally block did, once it has run
Job(position, outcome) == [pc |-> position, outcome |-> outcome, removal |-> "not called"]

InitService ==
    /\ pc = "serving"
    /\ input \in [requests : [1..MaxRequests -> RequestPool],
                  ocr : [use_paddle : BOOLEAN, debug : {FALSE}],
                  redis_client : BOOLEAN]
    /\ ret = None
    /\ now = DT(ValidationDay, 43200)
    /\ NoContainer
    /\ jobs = [i \in 1..MaxRequests |-> Job("request", None)]
    /\ tmp_files = {}
    /\ published = [i \in 1..MaxRequests |-> <<>>]

\* extract_passport: 400, or the upload is stored and the job is scheduled
ExtractPassport(i) ==
    /\ jobs[i].pc = "request"
    /\ IF rejected(input.requests[i])
       THEN /\ jobs' = [jobs EXCEPT ![i].pc = "rejected"]
            /\ tmp_files' = tmp_files
       ELSE /\ jobs' = [jobs EXCEPT ![i].pc = "scheduled"]
            /\ tmp_files' = tmp_files \cup {i}
    /\ UNCHANGED <<pc, input, ret, now, image_files, calls, published>>

\* a worker thread starts process_passport_async and enters ocr.process_file
StartJob(i) ==
    /\ jobs[i].pc = "scheduled"
    /\ jobs' = [jobs EXCEPT ![i].pc = "process_file"]
    /\ UNCHANGED <<pc, input, ret, now, image_files, calls, tmp_files, published>>

\* process_file up to its return, or up to the call of the PaddleOCR engine
ProcessFile(i) ==
    /\ jobs[i].pc = "process_file"
    /\ IF calls_paddle_ocr(input.ocr, input.requests[i])
       THEN jobs' = [jobs EXCEPT ![i].pc = "paddle_ocr"]
       ELSE jobs' = [jobs EXCEPT ![i] =
                        Job("publish", Some(process_file(input.ocr, input.requests[i], now)))]
    /\ UNCHANGED <<pc, input, ret, now, image_files, calls, tmp_files, published>>

\* self.paddle_ocr.ocr(...) returns or raises; process_file runs to its return
LeavePaddleOCR(i) ==
    /\ jobs[i].pc = "paddle_ocr"
    /\ jobs' = [jobs EXCEPT ![i] =
                   Job("publish", Some(process_file(input.ocr, input.requests[i], now)))]
    /\ UNCHANGED <<pc, input, ret, now, image_files, calls, tmp_files, published>>

\* publish_ocr_result: without client nothing is sent; redis_client.publish may
\* raise, which is caught inside; the call never raises
PublishResult(i) ==
    /\ jobs[i].pc = "publish"
    /\ \E sent \in IF input.redis_client THEN BOOLEAN ELSE {FALSE} :
           published' = [published EXCEPT ![i] =
                            Append(@, [payload |-> payload_of(jobs[i].outcome[1]), sent |-> sent])]
    /\ jobs' = [jobs EXCEPT ![i].pc = "finally"]
    /\ UNCHANGED <<pc, input, ret, now, image_files, calls, tmp_files>>

\* the finally block: the file is removed, or it stays because os.remove
\* raises (the exception is discarded) or os.path.exists cannot see it
RemoveTemporaryFile(i) ==
    /\ jobs[i].pc = "finally"
    /\ \E removed \in BOOLEAN :
           /\ tmp_files' = IF removed THEN tmp_files \ {i} ELSE tmp_files
           /\ jobs' = [jobs EXCEPT ![i].pc = "done",
                                   ![i].removal = IF removed THEN "removed" ELSE "failed"]
    /\ UNCHANGED <<pc, input, ret, now, image_files, calls, published>>

NextService ==
    \E i \in 1..MaxRequests :
        \/ ExtractPassport(i)
        \/ StartJob(i)
        \/ ProcessFile(i)
        \/ LeavePaddleOCR(i)
        \/ PublishResult(i)
        \/ RemoveTemporaryFile(i)

SpecService == InitService /\ [][NextService]_vars

(***************************************************************************)
(* C22: when several documents are processed concurrently by the service,  *)
(* the OCR engine held by the shared PassportOCR object is accessed        *)
(* exclusively: at no time are two jobs inside a call on the engine.       *)
(***************************************************************************)
InsideEngine == {i \in DOMAIN jobs : jobs[i].pc = "paddle_ocr"}

C22_ExclusiveEngine == Cardinality(InsideEngine) <= 1

\* two jobs are inside self.paddle_ocr.ocr of the one shared object
C22_TwoJobsInsideEngine ==
    /\ input.ocr.use_paddle
    /\ Cardinality(InsideEngine) = 2

(***************************************************************************)
(* C30 as stated: for every accepted upload the job calls                  *)
(* publish_ocr_result exactly once, with a success payload when            *)
(* process_file returned success = True and an error payload otherwise     *)
(* (also when processing raised), and after the job ends the temporary     *)
(* file no longer exists, whatever the outcome of processing or            *)
(* publishing; a request rejected with status 400 creates no temporary     *)
(* file and schedules no job.                                              *)
(***************************************************************************)
Requests == DOMAIN jobs

Succeeded(outcome) == ~outcome.raised /\ outcome.value[1].success

JobEnded(i) == jobs[i].pc = "done"

\* never more than one call, and exactly one once the job is past it
PublishedOnce(i) ==
    /\ Len(published[i]) <= 1
    /\ jobs[i].pc \in {"finally", "done"} => Len(published[i]) = 1
    /\ jobs[i].pc \in {"request", "rejected", "scheduled", "process_file", "paddle_ocr", "publish"}
           => published[i] = <<>>

PayloadMatches(i) ==
    published[i] # <<>> =>
        LET payload == published[i][1].payload
            outcome == jobs[i].outcome[1]
        IN /\ Succeeded(outcome) =>
                  payload.status = "success" /\ payload.raw_result = outcome.value
           /\ ~Succeeded(outcome) => payload.status = "error" /\ payload.error # None

RejectedLeavesNothing(i) ==
    rejected(input.requests[i]) =>
        /\ i \notin tmp_files
        /\ jobs[i].pc \in {"request", "rejected"}
        /\ published[i] = <<>>

====
